---- MODULE Spec2Model ----
(***************************************************************************)
(* Model of the CFITSIO I/O buffer pool (buffers.c): the fixed pool of     *)
(* NIOBUF record buffers shared by all open FITS files, the age index,     *)
(* the record loader ffldrc, the buffer selector ffwhbf, the byte engines  *)
(* ffmbyt / ffpbyt / ffgbyt, the strided engines ffpbytoff / ffgbytoff,    *)
(* the flush routines ffflsh / ffbfeof and the writeback routine ffbfwt.   *)
(*                                                                         *)
(* Every C routine is an operator from a program state (a record) to the   *)
(* program state after the call.  The record is the set of C globals, the  *)
(* FITSfile structures, the disk files and the driver positions.           *)
(*                                                                         *)
(* iobuffer is kept as the flat char array it is in memory, so that a copy *)
(* that leaves one buffer lands in the neighbouring buffer as it does in   *)
(* the compiled program; a copy that leaves the whole array, a copy of     *)
(* negative length and a dereference of a NULL FITSfile pointer raise      *)
(* "fault" (the process is killed) and nothing is enabled afterwards.      *)
(***************************************************************************)
EXTENDS Integers, Sequences, FiniteSets, TLC

(* ------------------------------ bounds --------------------------------- *)
\* number of buffers in the pool (NIOBUF is 40 in the program)
NIOBUF == 2
\* bytes per record (IOBUFLEN is 2880 in the program)
IOBUFLEN == 2
\* number of FITS files that exist
NFiles == 3
\* records 0 .. MaxRec-1 of each file are addressed
MaxRec == 3
\* number of public calls in one run of the whole interface
MaxOps == 2
\* number of public calls in one run on a single file
MaxOneOps == 6
\* number of public calls in one run of the pool operations
MaxPoolOps == 3
\* number of public calls in one run of round trips
MaxTripOps == 5
\* calls in a behaviour of SpecSize
MaxSizeOps == 4
\* calls in a behaviour of SpecScen
MaxScenOps == 2
\* calls in a behaviour of SpecFail
MaxFailOps == 3
\* the driver fails one of its first MaxGoodWrites + 1 writes
MaxGoodWrites == 2
\* calls in a behaviour of SpecStatus
MaxStatusOps == 3
\* calls in a behaviour of SpecChunk
MaxChunkOps == 4
\* calls in a behaviour of SpecTyped
MaxTypedOps == 4
\* calls in a behaviour of SpecStride
MaxStrideOps == 2

\* calls in a behaviour of SpecIso
MaxIsoOps == 5

(* ----------------------------- constants ------------------------------- *)
MINDIRECT == 2 * IOBUFLEN
REPORT_EOF == 0
IGNORE_EOF == 1
IMAGE_HDU == 0
ASCII_TBL == 1
TOO_MANY_FILES == 103
END_OF_FILE == 107
WRITE_ERROR == 106
READ_ERROR == 108
NEG_FILE_POS == 304

NULL == 0
Files == 1 .. NFiles
Bufs == 0 .. (NIOBUF - 1)
MemSize == NIOBUF * IOBUFLEN
MaxPos == MaxRec * IOBUFLEN

minvalue(a, b) == IF a < b THEN a ELSE b
maxvalue(a, b) == IF a > b THEN a ELSE b

\* C integer division and remainder (truncation toward zero)
CDiv(a, b) == IF a >= 0 THEN a \div b ELSE -((-a) \div b)
CMod(a, b) == a - b * CDiv(a, b)

\* the fill byte of an HDU: blank for ASCII tables, zero elsewhere
FillByte(hdutype) == IF hdutype = ASCII_TBL THEN 32 ELSE 0

\* iobuffer .. ageinit are the globals of buffers.c, Fptr the FITSfile
\* structures, disk and drvpos the files and positions kept by the driver.
\* last describes the latest public call and its result, written the byte
\* each caller wrote last at each position, failed whether some call has
\* returned an error status, nops the number of calls still to be made.
\* wleft is the number of driver writes that succeed before the one that the
\* driver fails (-1 if the driver never fails); chain tells whether the
\* caller hands the status of the previous call to the next call, as a
\* caller with one status variable does, or starts every call with status 0.
\* solo is the program state of a second run of the same program that makes
\* the calls for file 1 only.
VARIABLES iobuffer, bufptr, bufrecnum, dirty, ageindex, ageinit,
          Fptr, disk, drvpos, fault, last, written, failed, nops, wleft, chain,
          solo

vars == <<iobuffer, bufptr, bufrecnum, dirty, ageindex, ageinit,
          Fptr, disk, drvpos, fault, last, written, failed, nops, wleft, chain,
          solo>>

\* the program state as one record; status is the caller's in-out status,
\* out is the part of the caller's buffer that a read has filled, wlog the
\* driver writes of the call so far and clog the copies the strided engines
\* have made between the caller's buffer and the IO buffers
State(st) ==
  [iobuffer |-> iobuffer, bufptr |-> bufptr, bufrecnum |-> bufrecnum,
   dirty |-> dirty, ageindex |-> ageindex, ageinit |-> ageinit,
   Fptr |-> Fptr, disk |-> disk, drvpos |-> drvpos, fault |-> fault,
   status |-> st, out |-> << >>, wleft |-> wleft, wlog |-> << >>,
   clog |-> << >>]

(* ------------------------- memory of the pool -------------------------- *)
\* memcpy(iobuffer + addr, src, Len(src))
MemPut(s, addr, src) ==
  IF s.fault THEN s
  ELSE IF Len(src) = 0 THEN s
  ELSE IF addr < 0 \/ addr + Len(src) > MemSize THEN [s EXCEPT !.fault = TRUE]
  ELSE [s EXCEPT !.iobuffer =
          [a \in 0 .. (MemSize - 1) |->
             IF a >= addr /\ a < addr + Len(src) THEN src[a - addr + 1]
             ELSE s.iobuffer[a]]]

\* the n bytes at iobuffer + addr (only used where MemOk holds)
MemGet(s, addr, n) == [i \in 1 .. n |-> s.iobuffer[addr + i - 1]]
MemOk(addr, n) == n >= 0 /\ (n = 0 \/ (addr >= 0 /\ addr + n <= MemSize))

\* memset(iobuffer[nbuff], c, IOBUFLEN)
MemFill(s, nbuff, c) == MemPut(s, nbuff * IOBUFLEN, [i \in 1 .. IOBUFLEN |-> c])

(* --------------------------- platform driver --------------------------- *)
\* seek(file, offset)
ffseek(s, f, pos) == IF s.fault THEN s ELSE [s EXCEPT !.drvpos[f] = pos]

\* the entry of the write log for a write of src by file f
WriteEntry(s, f, src, ok) ==
  [f |-> f, pos |-> s.drvpos[f], eof |-> Len(s.disk[f]), data |-> src, ok |-> ok]

\* write(file, n, src) that the driver fails: nothing reaches the disk
WriteFails(s, f, src) ==
  [s EXCEPT !.status = WRITE_ERROR, !.wleft = -1,
            !.wlog = Append(@, WriteEntry(s, f, src, FALSE))]

\* write(file, n, src) at the driver position; a hole reads back as zeros
ffwrite(s, f, src) ==
  IF s.fault THEN s
  ELSE LET p == s.drvpos[f]
           old == s.disk[f]
           newlen == maxvalue(Len(old), p + Len(src))
       IN IF Len(src) = 0 THEN s
          ELSE IF s.wleft = 0 THEN WriteFails(s, f, src)
          ELSE [s EXCEPT
                  !.disk[f] = [i \in 1 .. newlen |->
                                 IF i > p /\ i <= p + Len(src) THEN src[i - p]
                                 ELSE IF i <= Len(old) THEN old[i] ELSE 0],
                  !.drvpos[f] = p + Len(src),
                  !.wleft = IF @ > 0 THEN @ - 1 ELSE @,
                  !.wlog = Append(@, WriteEntry(s, f, src, TRUE))]

\* number of bytes read(file, n, dst) delivers at the driver position
ReadAvail(s, f, n) ==
  LET left == Len(s.disk[f]) - s.drvpos[f]
  IN IF left <= 0 THEN 0 ELSE minvalue(n, left)

\* the bytes read(file, n, dst) delivers
ReadData(s, f, n) ==
  [i \in 1 .. ReadAvail(s, f, n) |-> s.disk[f][s.drvpos[f] + i]]

\* the state after read(file, n, dst): a short read is READ_ERROR
ffread(s, f, n) ==
  IF s.fault THEN s
  ELSE [s EXCEPT !.drvpos[f] = @ + ReadAvail(s, f, n),
                 !.status = IF ReadAvail(s, f, n) < n THEN READ_ERROR ELSE @]

(* ------------------------------- ffbfwt -------------------------------- *)
\* if (Fptr->io_pos != pos) ffseek(Fptr, pos)
SeekIfMoved(s, f, pos) ==
  IF s.Fptr[f].io_pos # pos THEN ffseek(s, f, pos) ELSE s

\* BfwtScan that keeps to the requested buffer
BfwtScan_NoLower(s, f, minrec, ii, irec, ibuff) == [irec |-> irec, ibuff |-> ibuff]

\* the inner for loop of ffbfwt: the lowest record of the file at or beyond
\* minrec and below irec, scanning the buffers in index order
RECURSIVE BfwtScan(_, _, _, _, _, _)
BfwtScan(s, f, minrec, ii, irec, ibuff) ==
  IF ii >= NIOBUF THEN [irec |-> irec, ibuff |-> ibuff]
  ELSE IF s.bufptr[ii] = f /\ s.bufrecnum[ii] >= minrec /\ s.bufrecnum[ii] < irec
       THEN BfwtScan(s, f, minrec, ii + 1, s.bufrecnum[ii], ii)
       ELSE BfwtScan(s, f, minrec, ii + 1, irec, ibuff)

\* ffwrite(Fptr, IOBUFLEN, zeros, status) repeated nloop times
RECURSIVE WriteZeros(_, _, _)
WriteZeros(s, f, nloop) ==
  IF nloop <= 0 THEN s
  ELSE WriteZeros(ffwrite(s, f, [i \in 1 .. IOBUFLEN |-> 0]), f, nloop - 1)

\* append fill records up to filepos if the file ends before it
BfwtFill(s, f, filepos) ==
  IF filepos > s.Fptr[f].filesize
  THEN [WriteZeros(s, f, (filepos - s.Fptr[f].filesize) \div IOBUFLEN)
          EXCEPT !.Fptr[f].filesize = filepos]
  ELSE s

\* write buffer ibuff at the EOF and increment the file size
BfwtWrite(s, f, ibuff) ==
  [ffwrite(s, f, MemGet(s, ibuff * IOBUFLEN, IOBUFLEN))
     EXCEPT !.dirty[ibuff] = FALSE,
            !.Fptr[f].filesize = s.Fptr[f].filesize + IOBUFLEN]

\* the while loop of ffbfwt: repeat until the requested buffer is written
RECURSIVE BfwtLoop(_, _, _)

\* loop back if the buffer just written was not the requested one
BfwtNext(s, f, nbuff, ibuff) ==
  IF ibuff # nbuff THEN BfwtLoop(s, f, nbuff) ELSE s

\* one round of the while loop, low being the lowest record beyond the EOF
BfwtStep(s, f, nbuff, low) ==
  BfwtNext(BfwtWrite(BfwtFill(s, f, low.irec * IOBUFLEN), f, low.ibuff),
           f, nbuff, low.ibuff)

BfwtLoop(s, f, nbuff) ==
  IF s.fault THEN s
  ELSE BfwtStep(s, f, nbuff,
                BfwtScan(s, f, s.Fptr[f].filesize \div IOBUFLEN, 0,
                         s.bufrecnum[nbuff], nbuff))

\* BfwtInFile that leaves io_pos where it was
BfwtInFile_StalePos(s, f, nbuff, filepos) ==
  [ffwrite(s, f, MemGet(s, nbuff * IOBUFLEN, IOBUFLEN))
     EXCEPT !.Fptr[f].filesize = IF filepos = @ THEN @ + IOBUFLEN ELSE @,
            !.dirty[nbuff] = FALSE]

\* the record is located within the current file: just write it
BfwtInFile(s, f, nbuff, filepos) ==
  [ffwrite(s, f, MemGet(s, nbuff * IOBUFLEN, IOBUFLEN))
     EXCEPT !.Fptr[f].io_pos = filepos + IOBUFLEN,
            !.Fptr[f].filesize = IF filepos = @ THEN @ + IOBUFLEN ELSE @,
            !.dirty[nbuff] = FALSE]

\* BfwtAtEof that leaves io_pos at the old EOF
BfwtAtEof_Stay(s, f) == s

\* after the while loop the driver is positioned at the EOF
BfwtAtEof(s, f) ==
  IF s.fault THEN s ELSE [s EXCEPT !.Fptr[f].io_pos = s.Fptr[f].filesize]

\* ffbfwt for the buffer nbuff of file f, whose record starts at filepos
BfwtFile(s, f, nbuff, filepos) ==
  IF filepos <= s.Fptr[f].filesize
  THEN BfwtInFile(SeekIfMoved(s, f, filepos), f, nbuff, filepos)
  ELSE BfwtAtEof(BfwtLoop(SeekIfMoved(s, f, s.Fptr[f].filesize), f, nbuff), f)

\* write contents of buffer nbuff to disk; a buffer without a file makes
\* ffbfwt dereference a null pointer
ffbfwt(s, nbuff) ==
  IF s.fault THEN s
  ELSE IF s.bufptr[nbuff] = NULL THEN [s EXCEPT !.fault = TRUE]
  ELSE BfwtFile(s, s.bufptr[nbuff], nbuff, s.bufrecnum[nbuff] * IOBUFLEN)

(* ------------------------------- ffwhbf -------------------------------- *)
\* the age index as ffwhbf sees it after its first-call initialisation
AgeInitialised(s) ==
  IF s.ageinit = 0 THEN [ii \in Bufs |-> ii] ELSE s.ageindex

\* Locked that holds of no buffer
Locked_Never(s, ibuff) == FALSE

\* a buffer is locked when it is the current buffer of the file that owns it
Locked(s, ibuff) ==
  s.bufptr[ibuff] # NULL /\ s.Fptr[s.bufptr[ibuff]].curbuf = ibuff

\* WhbfScan without the reuse of the file's own current buffer
WhbfScan_NoReuse(s, f, age, ii) ==
  IF \E k \in ii .. (NIOBUF - 1) : ~Locked(s, age[k])
  THEN age[CHOOSE k \in ii .. (NIOBUF - 1) :
             ~Locked(s, age[k]) /\ \A j \in ii .. (k - 1) : Locked(s, age[j])]
  ELSE -1

\* WhbfScan that takes the youngest buffer that is not locked
WhbfScan_Youngest(s, f, age, ii) ==
  IF \E k \in ii .. (NIOBUF - 1) : ~Locked(s, age[k])
  THEN age[CHOOSE k \in ii .. (NIOBUF - 1) :
             ~Locked(s, age[k]) /\ \A j \in (k + 1) .. (NIOBUF - 1) : Locked(s, age[j])]
  ELSE s.Fptr[f].curbuf

\* the search loop of ffwhbf from the oldest to the youngest buffer
RECURSIVE WhbfScan(_, _, _, _)
WhbfScan(s, f, age, ii) ==
  IF ii >= NIOBUF THEN s.Fptr[f].curbuf
  ELSE IF ~Locked(s, age[ii]) THEN age[ii]
       ELSE WhbfScan(s, f, age, ii + 1)

\* which buffer to (re)use for a new record of file f; -1 if there is none
ffwhbf(s, f) == WhbfScan(s, f, AgeInitialised(s), 0)

(* ------------------------------- ffldrc -------------------------------- *)
\* LdrcFind that never finds the record loaded
LdrcFind_NoMatch(s, f, record, ibuff) == -1

\* the youngest-to-oldest search of ffldrc for a loaded record; the result
\* is the position in the age index, or -1
RECURSIVE LdrcFind(_, _, _, _)
LdrcFind(s, f, record, ibuff) ==
  IF ibuff < 0 THEN -1
  ELSE IF s.bufptr[s.ageindex[ibuff]] = f /\ record = s.bufrecnum[s.ageindex[ibuff]]
       THEN ibuff
       ELSE LdrcFind(s, f, record, ibuff - 1)

\* first position of nbuff in the age index, NIOBUF if it is not there
RECURSIVE AgePos(_, _, _)
AgePos(age, nbuff, ibuff) ==
  IF ibuff >= NIOBUF THEN NIOBUF
  ELSE IF age[ibuff] = nbuff THEN ibuff ELSE AgePos(age, nbuff, ibuff + 1)

\* AgeShift that does not age the younger buffers
AgeShift_NoShift(age, ibuff, nbuff) ==
  [k \in Bufs |-> IF k = NIOBUF - 1 THEN nbuff ELSE age[k]]

\* the age index after the buffer at position ibuff became the youngest
AgeShift(age, ibuff, nbuff) ==
  [k \in Bufs |-> IF k = NIOBUF - 1 THEN nbuff
                  ELSE IF k >= ibuff THEN age[k + 1] ELSE age[k]]

\* LdrcUpdate that does not move the buffer in the age index
LdrcUpdate_NoAge(s, f, nbuff, ibuff) ==
  IF s.fault THEN s
  ELSE [s EXCEPT !.Fptr[f].curbuf = nbuff]

\* label updatebuf of ffldrc; ibuff < 0 when the record was not found loaded
LdrcUpdate(s, f, nbuff, ibuff) ==
  IF s.fault THEN s
  ELSE LET pos == IF ibuff < 0 THEN AgePos(s.ageindex, nbuff, 0) ELSE ibuff
       IN [s EXCEPT !.Fptr[f].curbuf = nbuff,
                    !.ageindex = AgeShift(s.ageindex, pos, nbuff)]

\* read the record at rstart from disk into buffer nbuff
LdrcRead(s, f, nbuff, rstart) ==
  [MemPut(ffread(s, f, IOBUFLEN), nbuff * IOBUFLEN, ReadData(s, f, IOBUFLEN))
     EXCEPT !.Fptr[f].io_pos = rstart + IOBUFLEN]

\* LdrcFill that leaves the logical file size alone
LdrcFill_NoLogSize(s, f, nbuff, rstart) ==
  IF s.fault THEN s
  ELSE IF rstart >= s.Fptr[f].filesize
  THEN [MemFill(s, nbuff, FillByte(s.Fptr[f].hdutype)) EXCEPT !.dirty[nbuff] = TRUE]
  ELSE LdrcRead(SeekIfMoved(s, f, rstart), f, nbuff, rstart)

\* the fill step of ffldrc: a record beyond the EOF is initialised with the
\* fill value and marked modified, any other record is read from disk
LdrcFill(s, f, nbuff, rstart) ==
  IF s.fault THEN s
  ELSE IF rstart >= s.Fptr[f].filesize
  THEN [MemFill(s, nbuff, FillByte(s.Fptr[f].hdutype))
          EXCEPT !.Fptr[f].logfilesize = maxvalue(@, rstart + IOBUFLEN),
                 !.dirty[nbuff] = TRUE]
  ELSE LdrcRead(SeekIfMoved(s, f, rstart), f, nbuff, rstart)

\* the first call of ffwhbf initialises the age index
WhbfInit(s) == [s EXCEPT !.ageindex = AgeInitialised(s), !.ageinit = 1]

\* if (dirty[nbuff]) ffbfwt(nbuff, status)
LdrcFlush(s, nbuff) == IF s.dirty[nbuff] THEN ffbfwt(s, nbuff) ELSE s

\* define the buffer as holding the record of the file
LdrcAdopt(s, f, nbuff, record) ==
  IF s.fault THEN s
  ELSE [s EXCEPT !.bufptr[nbuff] = f, !.bufrecnum[nbuff] = record]

\* ffldrc once ffwhbf has returned nbuff for a record that is not loaded
LdrcLoad(s, f, record, nbuff) ==
  IF nbuff < 0 THEN [s EXCEPT !.status = TOO_MANY_FILES]
  ELSE LdrcUpdate(LdrcAdopt(LdrcFill(LdrcFlush(s, nbuff), f, nbuff,
                                     record * IOBUFLEN),
                            f, nbuff, record),
                  f, nbuff, -1)

\* LdrcFound that loads the record again although it is loaded
LdrcFound_Reload(s, f, record, err_mode, hit) ==
  IF err_mode = REPORT_EOF /\ record * IOBUFLEN >= s.Fptr[f].logfilesize
       THEN [s EXCEPT !.status = END_OF_FILE]
  ELSE LdrcLoad(WhbfInit(s), f, record, ffwhbf(s, f))

\* LdrcFound that calls ffwhbf before the EOF check
LdrcFound_LateEof(s, f, record, err_mode, hit) ==
  IF hit >= 0 THEN LdrcUpdate(s, f, s.ageindex[hit], hit)
  ELSE IF err_mode = REPORT_EOF /\ record * IOBUFLEN >= s.Fptr[f].logfilesize
       THEN [WhbfInit(s) EXCEPT !.status = END_OF_FILE]
  ELSE LdrcLoad(WhbfInit(s), f, record, ffwhbf(s, f))

\* ffldrc once the search has ended at position hit of the age index (-1 if
\* the record is not loaded)
LdrcFound(s, f, record, err_mode, hit) ==
  IF hit >= 0 THEN LdrcUpdate(s, f, s.ageindex[hit], hit)
  ELSE IF err_mode = REPORT_EOF /\ record * IOBUFLEN >= s.Fptr[f].logfilesize
       THEN [s EXCEPT !.status = END_OF_FILE]
  ELSE LdrcLoad(WhbfInit(s), f, record, ffwhbf(s, f))

\* load record of file f into a buffer and make it the current record
ffldrc(s, f, record, err_mode) ==
  IF s.fault THEN s
  ELSE LdrcFound(s, f, record, err_mode, LdrcFind(s, f, record, NIOBUF - 1))

(* ------------------------- indexing by curbuf -------------------------- *)
\* bufrecnum[n]; for n outside the array the word found there is oob
BufRecnum(s, n, oob) == IF n \in Bufs THEN s.bufrecnum[n] ELSE oob

\* dirty[n] = TRUE; outside the array the store is a fault
SetDirty(s, n) ==
  IF s.fault THEN s
  ELSE IF n \in Bufs THEN [s EXCEPT !.dirty[n] = TRUE]
  ELSE [s EXCEPT !.fault = TRUE]

\* a segment of the caller's buffer: elements from+1 .. from+n
Seg(buffer, from, n) == [i \in 1 .. n |-> buffer[from + i]]

(* ------------------------------- ffmbyt -------------------------------- *)
\* save the new file position unless the load failed
MbytSave(s, f, bytepos) ==
  IF s.fault THEN s
  ELSE IF s.status <= 0 THEN [s EXCEPT !.Fptr[f].bytepos = bytepos]
  ELSE s

\* move to byte position bytepos of file f
ffmbyt(s, f, bytepos, err_mode, oob) ==
  IF s.fault \/ s.status > 0 THEN s
  ELSE IF bytepos < 0 THEN [s EXCEPT !.status = NEG_FILE_POS]
  ELSE MbytSave(IF bytepos \div IOBUFLEN # BufRecnum(s, s.Fptr[f].curbuf, oob)
                THEN ffldrc(s, f, bytepos \div IOBUFLEN, err_mode) ELSE s,
                f, bytepos)

(* ------------------------------- ffpbyt -------------------------------- *)
\* a buffer affected by a direct write is written if it is modified
PbytFlushOne(s, ii) == IF s.dirty[ii] THEN ffbfwt(s, ii) ELSE s

\* PbytDrop that leaves the buffer associated with the file
PbytDrop_Keep(s, ii) == s

\* and then disassociated from the file
PbytDrop(s, ii) == IF s.fault THEN s ELSE [s EXCEPT !.bufptr[ii] = NULL]

\* the flush loop of the direct write: every buffer of the file in
\* recstart .. recend is written if dirty and then disassociated
RECURSIVE PbytFlush(_, _, _, _, _)
PbytFlush(s, f, recstart, recend, ii) ==
  IF s.fault \/ ii >= NIOBUF THEN s
  ELSE IF s.bufptr[ii] = f /\ s.bufrecnum[ii] >= recstart /\ s.bufrecnum[ii] <= recend
       THEN PbytFlush(PbytDrop(PbytFlushOne(s, ii), ii), f, recstart, recend, ii + 1)
       ELSE PbytFlush(s, f, recstart, recend, ii + 1)

\* fill up the current IO buffer with the first nspace bytes of the caller
PbytFillCurrent(s, nbuff, bufpos, nspace, buffer) ==
  IF nspace = 0 THEN s
  ELSE IF nspace < 0 \/ nspace > Len(buffer) THEN [s EXCEPT !.fault = TRUE]
  ELSE SetDirty(MemPut(s, nbuff * IOBUFLEN + bufpos, Seg(buffer, 0, nspace)), nbuff)

\* move to the write position and write the whole records directly
PbytWrite(s, f, filepos, data) ==
  IF s.fault THEN s
  ELSE [ffwrite(SeekIfMoved(s, f, filepos), f, data)
          EXCEPT !.Fptr[f].io_pos = filepos + Len(data)]

\* PbytLast that does not fill the buffer at the EOF
PbytLast_NoFill(s, f, nbuff) ==
  IF s.fault THEN s
  ELSE IF s.Fptr[f].io_pos >= s.Fptr[f].filesize
  THEN [s EXCEPT !.Fptr[f].filesize = s.Fptr[f].io_pos]
  ELSE [MemPut(ffread(s, f, IOBUFLEN), nbuff * IOBUFLEN, ReadData(s, f, IOBUFLEN))
          EXCEPT !.Fptr[f].io_pos = s.Fptr[f].io_pos + IOBUFLEN]

\* prepare the current buffer for the last record: the fill value at the
\* EOF, the record read from disk otherwise
PbytLast(s, f, nbuff) ==
  IF s.fault THEN s
  ELSE IF s.Fptr[f].io_pos >= s.Fptr[f].filesize
  THEN MemFill([s EXCEPT !.Fptr[f].filesize = s.Fptr[f].io_pos],
               nbuff, FillByte(s.Fptr[f].hdutype))
  ELSE [MemPut(ffread(s, f, IOBUFLEN), nbuff * IOBUFLEN, ReadData(s, f, IOBUFLEN))
          EXCEPT !.Fptr[f].io_pos = s.Fptr[f].io_pos + IOBUFLEN]

\* the current buffer now holds record recend of the file
PbytLabel(s, f, nbuff, recend, bytepos) ==
  IF s.fault THEN s
  ELSE [s EXCEPT !.bufrecnum[nbuff] = recend,
                 !.bufptr[nbuff] = f,
                 !.Fptr[f].logfilesize = maxvalue(@, (recend + 1) * IOBUFLEN),
                 !.Fptr[f].bytepos = bytepos]

\* the direct path once the positions are computed: nspace bytes go to the
\* current buffer, nwrite bytes to disk and the rest to the current buffer
PbytDirectAt(s, f, buffer, nbuff, recstart, recend, filepos, nspace, nwrite) ==
  PbytLabel(
    SetDirty(
      MemPut(
        PbytLast(
          PbytWrite(
            PbytFlush(
              PbytFillCurrent(s, nbuff, IOBUFLEN - nspace, nspace, buffer),
              f, recstart, recend, 0),
            f, filepos + nspace, Seg(buffer, nspace, nwrite)),
          f, nbuff),
        nbuff * IOBUFLEN,
        Seg(buffer, nspace + nwrite, Len(buffer) - nspace - nwrite)),
      nbuff),
    f, nbuff, recend, filepos + nspace + nwrite + (Len(buffer) - nspace - nwrite))

\* the direct path of ffpbyt (nbytes >= MINDIRECT)
PbytDirect(s, f, buffer, oob) ==
  LET nbuff == s.Fptr[f].curbuf
      filepos == s.Fptr[f].bytepos
      recstart == BufRecnum(s, nbuff, oob)
      nspace == IOBUFLEN - (filepos - (recstart * IOBUFLEN))
  IN PbytDirectAt(s, f, buffer, nbuff, recstart,
                  (filepos + Len(buffer) - 1) \div IOBUFLEN, filepos, nspace,
                  CDiv(Len(buffer) - nspace - 1, IOBUFLEN) * IOBUFLEN)

\* the file position moves on and the current record is marked modified
PbytAdvance(s, f, nwrite) ==
  IF s.fault THEN s
  ELSE SetDirty([s EXCEPT !.Fptr[f].bytepos = @ + nwrite], s.Fptr[f].curbuf)

\* copy nwrite bytes from the caller's buffer to the current IO buffer
PbytCopy(s, f, buffer, done, nwrite, bufpos) ==
  IF nwrite < 0 THEN [s EXCEPT !.fault = TRUE]
  ELSE PbytAdvance(MemPut(s, s.Fptr[f].curbuf * IOBUFLEN + bufpos,
                          Seg(buffer, done, nwrite)),
                   f, nwrite)

\* the while loop of the buffered path of ffpbyt; done bytes are written
RECURSIVE PbytLoop(_, _, _, _, _, _)

\* if bytes remain, load the next record and go round the loop again
PbytMore(s, f, buffer, done) ==
  IF s.fault \/ Len(buffer) - done = 0 THEN s
  ELSE PbytLoop(ffldrc(s, f, s.Fptr[f].bytepos \div IOBUFLEN, IGNORE_EOF),
                f, buffer, done, 0, IOBUFLEN)

PbytLoop(s, f, buffer, done, bufpos, nspace) ==
  IF s.fault \/ Len(buffer) - done = 0 THEN s
  ELSE PbytMore(PbytCopy(s, f, buffer, done,
                         minvalue(Len(buffer) - done, nspace), bufpos),
                f, buffer, done + minvalue(Len(buffer) - done, nspace))

\* put (write) the buffer of bytes at the current position of file f
ffpbyt(s, f, buffer, oob) ==
  IF s.fault \/ s.status > 0 THEN s
  ELSE IF Len(buffer) >= MINDIRECT THEN PbytDirect(s, f, buffer, oob)
  ELSE LET bufpos == s.Fptr[f].bytepos
                       - (BufRecnum(s, s.Fptr[f].curbuf, oob) * IOBUFLEN)
       IN PbytLoop(s, f, buffer, 0, bufpos, IOBUFLEN - bufpos)

(* ------------------------------- ffgbyt -------------------------------- *)
\* the flush loop of the direct read: dirty buffers of the file in
\* recstart .. recend are written; they stay associated
RECURSIVE GbytFlush(_, _, _, _, _)
GbytFlush(s, f, recstart, recend, ii) ==
  IF s.fault \/ ii >= NIOBUF THEN s
  ELSE IF s.dirty[ii] /\ s.bufptr[ii] = f
          /\ s.bufrecnum[ii] >= recstart /\ s.bufrecnum[ii] <= recend
       THEN GbytFlush(ffbfwt(s, ii), f, recstart, recend, ii + 1)
       ELSE GbytFlush(s, f, recstart, recend, ii + 1)

\* GbytRead that moves the file position over the bytes read
GbytRead_Advance(s, f, filepos, nbytes) ==
  [ffread(s, f, nbytes) EXCEPT !.out = ReadData(s, f, nbytes),
                               !.Fptr[f].io_pos = filepos + nbytes,
                               !.Fptr[f].bytepos = filepos + nbytes]

\* read nbytes bytes at the driver position into the caller's buffer
GbytRead(s, f, filepos, nbytes) ==
  [ffread(s, f, nbytes) EXCEPT !.out = ReadData(s, f, nbytes),
                               !.Fptr[f].io_pos = filepos + nbytes]

\* move to the read position and read the data
GbytSeekRead(s, f, filepos, nbytes) ==
  IF s.fault THEN s ELSE GbytRead(SeekIfMoved(s, f, filepos), f, filepos, nbytes)

\* the direct path of ffgbyt (nbytes >= MINDIRECT)
GbytDirect(s, f, nbytes, oob) ==
  GbytSeekRead(GbytFlush(s, f, BufRecnum(s, s.Fptr[f].curbuf, oob),
                         (s.Fptr[f].bytepos + nbytes - 1) \div IOBUFLEN, 0),
               f, s.Fptr[f].bytepos, nbytes)

\* copy nread bytes from the current IO buffer to the caller's buffer
GbytCopy(s, f, addr, nread) ==
  IF ~MemOk(addr, nread) THEN [s EXCEPT !.fault = TRUE]
  ELSE [s EXCEPT !.out = @ \o MemGet(s, addr, nread),
                 !.Fptr[f].bytepos = @ + nread]

\* the while loop of the buffered path of ffgbyt
RECURSIVE GbytLoop(_, _, _, _, _)

\* if bytes remain, load the next record and go round the loop again
GbytMore(s, f, ntodo) ==
  IF s.fault \/ ntodo = 0 THEN s
  ELSE GbytLoop(ffldrc(s, f, s.Fptr[f].bytepos \div IOBUFLEN, REPORT_EOF),
                f, ntodo, 0, IOBUFLEN)

GbytLoop(s, f, ntodo, bufpos, nspace) ==
  IF s.fault \/ ntodo = 0 THEN s
  ELSE GbytMore(GbytCopy(s, f, s.Fptr[f].curbuf * IOBUFLEN + bufpos,
                         minvalue(ntodo, nspace)),
                f, ntodo - minvalue(ntodo, nspace))

\* get (read) nbytes bytes at the current position of file f
ffgbyt(s, f, nbytes, oob) ==
  IF s.fault \/ s.status > 0 THEN s
  ELSE IF nbytes >= MINDIRECT THEN GbytDirect(s, f, nbytes, oob)
  ELSE LET bufpos == s.Fptr[f].bytepos
                       - (BufRecnum(s, s.Fptr[f].curbuf, oob) * IOBUFLEN)
       IN GbytLoop(s, f, nbytes, bufpos, IOBUFLEN - bufpos)

(* --------------------------- ffflsh, ffbfeof ---------------------------- *)
\* if (clearbuf) bufptr[ii] = NULL
FlshClear(s, ii, clearbuf) ==
  IF s.fault THEN s
  ELSE IF clearbuf THEN [s EXCEPT !.bufptr[ii] = NULL]
  ELSE s

\* a buffer of the file is written if it is modified, and cleared if asked
FlshOne(s, ii, clearbuf) ==
  FlshClear(IF s.dirty[ii] THEN ffbfwt(s, ii) ELSE s, ii, clearbuf)

\* the loop of ffflsh over the buffers
RECURSIVE FlshLoop(_, _, _, _)
FlshLoop(s, f, clearbuf, ii) ==
  IF s.fault \/ ii >= NIOBUF THEN s
  ELSE IF s.bufptr[ii] = f
       THEN FlshLoop(FlshOne(s, ii, clearbuf), f, clearbuf, ii + 1)
       ELSE FlshLoop(s, f, clearbuf, ii + 1)

\* ffflsh whose loop starts at the second buffer
ffflsh_SkipFirst(s, f, clearbuf) == FlshLoop(s, f, clearbuf, 1)

\* flush all dirty IO buffers associated with the file to disk
ffflsh(s, f, clearbuf) == FlshLoop(s, f, clearbuf, 0)

\* ffbfeof that keeps the buffer of the record that starts at the end of file
ffbfeof_Above(s, f) ==
  IF s.fault THEN s
  ELSE [s EXCEPT !.bufptr =
          [ii \in Bufs |->
             IF s.bufptr[ii] = f
                /\ s.bufrecnum[ii] * IOBUFLEN > s.Fptr[f].filesize
             THEN NULL ELSE s.bufptr[ii]]]

\* clear any buffers beyond the end of file
ffbfeof(s, f) ==
  IF s.fault THEN s
  ELSE [s EXCEPT !.bufptr =
          [ii \in Bufs |->
             IF s.bufptr[ii] = f
                /\ s.bufrecnum[ii] * IOBUFLEN >= s.Fptr[f].filesize
             THEN NULL ELSE s.bufptr[ii]]]

(* ------------------------------ ffpbytoff ------------------------------ *)
\* The cursor of the strided engines: done bytes of the caller's buffer are
\* transferred, bcurrent is the current buffer, record its record number,
\* nspace the space left in it and ioptr the address iobuffer + ... of the
\* next byte.
Cursor(s, f, oob) ==
  LET bcurrent == s.Fptr[f].curbuf
      record == BufRecnum(s, bcurrent, oob)
      bufpos == s.Fptr[f].bytepos - (record * IOBUFLEN)
  IN [done |-> 0, bcurrent |-> bcurrent, record |-> record,
      nspace |-> IOBUFLEN - bufpos, ioptr |-> bcurrent * IOBUFLEN + bufpos]

\* the cursor after a group that fitted into the current buffer
CursorFit(c, gsize, offset, n) ==
  [done |-> c.done + gsize, bcurrent |-> c.bcurrent, record |-> c.record,
   nspace |-> c.nspace - (offset + n), ioptr |-> c.ioptr + offset + n]

\* the cursor after a group whose last rest bytes went to the start of the
\* next record, loaded into buffer bcurrent
CursorSplit(c, gsize, offset, rest, bcurrent) ==
  [done |-> c.done + gsize, bcurrent |-> bcurrent, record |-> c.record + 1,
   nspace |-> IOBUFLEN - offset - rest,
   ioptr |-> bcurrent * IOBUFLEN + offset + rest]

\* the cursor after the move beyond the current record, to buffer bcurrent
CursorMove(c, bcurrent) ==
  [done |-> c.done, bcurrent |-> bcurrent,
   record |-> c.record + CDiv(IOBUFLEN - c.nspace, IOBUFLEN),
   nspace |-> IOBUFLEN - CMod(-c.nspace, IOBUFLEN),
   ioptr |-> bcurrent * IOBUFLEN + CMod(-c.nspace, IOBUFLEN)]

\* the entry of the copy log for a copy of n bytes at offset bufpos of
\* buffer buf, taken to hold record record, when done bytes of the caller's
\* buffer had been transferred
LogCopy(s, buf, bufpos, n, record, done) ==
  IF s.fault THEN s
  ELSE [s EXCEPT !.clog = Append(@, [buf |-> buf, bufpos |-> bufpos, n |-> n,
                                     record |-> record, done |-> done])]

\* the copy at the cursor
LogCursor(s, c, n) ==
  LogCopy(s, c.bcurrent, c.ioptr - c.bcurrent * IOBUFLEN, n, c.record, c.done)

\* copy nwrite bytes of the group to the IO buffer; sc is the pair of
\* program state and cursor
PbytoffCopy(sc, buffer, nwrite) ==
  [sc EXCEPT !.s = IF nwrite < 0 THEN [sc.s EXCEPT !.fault = TRUE]
                   ELSE LogCursor(MemPut(sc.s, sc.c.ioptr,
                                         Seg(buffer, sc.c.done, nwrite)),
                                  sc.c, nwrite)]

\* entire group did not fit: s is the state after the load of the next
\* record, which takes the rest of the group
PbytoffSplit(s, c, f, gsize, offset, buffer, nwrite) ==
  [s |-> LogCopy(MemPut(s, s.Fptr[f].curbuf * IOBUFLEN,
                        Seg(buffer, c.done + nwrite, gsize - nwrite)),
                 s.Fptr[f].curbuf, 0, gsize - nwrite, c.record + 1,
                 c.done + nwrite),
   c |-> CursorSplit(c, gsize, offset, gsize - nwrite, s.Fptr[f].curbuf)]

\* the branch on nwrite < gsize
PbytoffFit(sc, f, gsize, offset, buffer, nwrite) ==
  IF sc.s.fault THEN sc
  ELSE IF nwrite < gsize
  THEN PbytoffSplit(ffldrc(SetDirty(sc.s, sc.c.bcurrent), f, sc.c.record + 1,
                           IGNORE_EOF),
                    sc.c, f, gsize, offset, buffer, nwrite)
  ELSE [sc EXCEPT !.c = CursorFit(sc.c, gsize, offset, nwrite)]

\* beyond current record: s is the state after the load of the new record
PbytoffMove(s, c, f) == [s |-> s, c |-> CursorMove(c, s.Fptr[f].curbuf)]

\* the branch on nspace <= 0, which the last group does not have
PbytoffBeyond(sc, f, lastgroup) ==
  IF lastgroup \/ sc.s.fault \/ sc.c.nspace > 0 THEN sc
  ELSE PbytoffMove(ffldrc(SetDirty(sc.s, sc.c.bcurrent), f,
                          sc.c.record + CDiv(IOBUFLEN - sc.c.nspace, IOBUFLEN),
                          IGNORE_EOF),
                   sc.c, f)

\* one group of ffpbytoff
PbytoffGroup(sc, f, gsize, offset, buffer, lastgroup) ==
  IF sc.s.fault THEN sc
  ELSE PbytoffBeyond(
         PbytoffFit(PbytoffCopy(sc, buffer, minvalue(gsize, sc.c.nspace)),
                    f, gsize, offset, buffer, minvalue(gsize, sc.c.nspace)),
         f, lastgroup)

\* the for loop of ffpbytoff over all but the last group, then the last
RECURSIVE PbytoffLoop(_, _, _, _, _, _, _)
PbytoffLoop(sc, f, gsize, ngroups, offset, buffer, ii) ==
  IF ii < ngroups
  THEN PbytoffLoop(PbytoffGroup(sc, f, gsize, offset, buffer, FALSE),
                   f, gsize, ngroups, offset, buffer, ii + 1)
  ELSE PbytoffGroup(sc, f, gsize, offset, buffer, TRUE)

\* the file position moves over the groups and the gaps between them
OffAdvance(s, f, gsize, ngroups, offset) ==
  IF s.fault THEN s
  ELSE [s EXCEPT !.Fptr[f].bytepos =
          @ + (ngroups * gsize) + (ngroups - 1) * offset]

\* the end of ffpbytoff: the last record is marked modified
PbytoffEnd(sc, f, gsize, ngroups, offset) ==
  OffAdvance(SetDirty(sc.s, sc.c.bcurrent), f, gsize, ngroups, offset)

\* put ngroups groups of gsize bytes, offset bytes apart, from the current
\* position of file f
ffpbytoff(s, f, gsize, ngroups, offset, buffer, oob) ==
  IF s.fault \/ s.status > 0 THEN s
  ELSE PbytoffEnd(PbytoffLoop([s |-> s, c |-> Cursor(s, f, oob)],
                              f, gsize, ngroups, offset, buffer, 1),
                  f, gsize, ngroups, offset)

(* ------------------------------ ffgbytoff ------------------------------ *)
\* memcpy(cptr, iobuffer + addr, n) into the caller's buffer
MemRead(s, addr, n) ==
  IF s.fault THEN s
  ELSE IF ~MemOk(addr, n) THEN [s EXCEPT !.fault = TRUE]
  ELSE [s EXCEPT !.out = @ \o MemGet(s, addr, n)]

\* copy nread bytes of the group from the IO buffer
GbytoffCopy(sc, nread) ==
  [sc EXCEPT !.s = LogCursor(MemRead(sc.s, sc.c.ioptr, nread), sc.c, nread)]

\* entire group did not fit: s is the state after the load of the next
\* record, which holds the rest of the group
GbytoffSplit(s, c, f, gsize, offset, nread) ==
  [s |-> LogCopy(MemRead(s, s.Fptr[f].curbuf * IOBUFLEN, gsize - nread),
                 s.Fptr[f].curbuf, 0, gsize - nread, c.record + 1,
                 c.done + nread),
   c |-> CursorSplit(c, gsize, offset, gsize - nread, s.Fptr[f].curbuf)]

\* the branch on nread < gsize
GbytoffFit(sc, f, gsize, offset, nread) ==
  IF sc.s.fault THEN sc
  ELSE IF nread < gsize
  THEN GbytoffSplit(ffldrc(sc.s, f, sc.c.record + 1, REPORT_EOF),
                    sc.c, f, gsize, offset, nread)
  ELSE [sc EXCEPT !.c = CursorFit(sc.c, gsize, offset, nread)]

\* the branch on nspace <= 0, which the last group does not have
GbytoffBeyond(sc, f, lastgroup) ==
  IF lastgroup \/ sc.s.fault \/ sc.c.nspace > 0 THEN sc
  ELSE PbytoffMove(ffldrc(sc.s, f,
                          sc.c.record + CDiv(IOBUFLEN - sc.c.nspace, IOBUFLEN),
                          REPORT_EOF),
                   sc.c, f)

\* one group of ffgbytoff
GbytoffGroup(sc, f, gsize, offset, lastgroup) ==
  IF sc.s.fault THEN sc
  ELSE GbytoffBeyond(
         GbytoffFit(GbytoffCopy(sc, minvalue(gsize, sc.c.nspace)),
                    f, gsize, offset, minvalue(gsize, sc.c.nspace)),
         f, lastgroup)

\* the for loop of ffgbytoff over all but the last group, then the last
RECURSIVE GbytoffLoop(_, _, _, _, _, _)
GbytoffLoop(sc, f, gsize, ngroups, offset, ii) ==
  IF ii < ngroups
  THEN GbytoffLoop(GbytoffGroup(sc, f, gsize, offset, FALSE),
                   f, gsize, ngroups, offset, ii + 1)
  ELSE GbytoffGroup(sc, f, gsize, offset, TRUE)

\* the end of ffgbytoff
GbytoffEnd(sc, f, gsize, ngroups, offset) ==
  OffAdvance(sc.s, f, gsize, ngroups, offset)

\* get ngroups groups of gsize bytes, offset bytes apart, from the current
\* position of file f
ffgbytoff(s, f, gsize, ngroups, offset, oob) ==
  IF s.fault \/ s.status > 0 THEN s
  ELSE GbytoffEnd(GbytoffLoop([s |-> s, c |-> Cursor(s, f, oob)],
                              f, gsize, ngroups, offset, 1),
                  f, gsize, ngroups, offset)

(* ------------------------------- ffgi1b -------------------------------- *)
\* the direct read of ffgi1b: the file position is set to byteloc for the
\* call of ffgbyt and set back afterwards
Gi1bDirect(s, f, byteloc, nvals, oob) ==
  IF s.fault THEN s
  ELSE [ffgbyt([s EXCEPT !.Fptr[f].bytepos = byteloc], f, nvals, oob)
          EXCEPT !.Fptr[f].bytepos = s.Fptr[f].bytepos]

\* get (read) nvals one-byte values at byteloc, incre bytes apart
ffgi1b(s, f, byteloc, nvals, incre, oob) ==
  IF incre = 1
  THEN IF nvals < MINDIRECT
       THEN ffgbyt(ffmbyt(s, f, byteloc, REPORT_EOF, oob), f, nvals, oob)
       ELSE Gi1bDirect(s, f, byteloc, nvals, oob)
  ELSE ffgbytoff(ffmbyt(s, f, byteloc, REPORT_EOF, oob), f, 1, nvals,
                 incre - 1, oob)

(* ---------------------- ffgrsz, fits_get_num_files -------------------- *)
\* the number of different files that own a buffer: a buffer counts if no
\* buffer before it belongs to the same file
fits_get_num_files(s) ==
  Cardinality({ii \in Bufs :
                 /\ s.bufptr[ii] # NULL
                 /\ \A jj \in 0 .. (ii - 1) : s.bufptr[ii] # s.bufptr[jj]})

\* the pixels of an image that fit into the buffers the open files leave
GrszImage(nfiles, typecode) ==
  CDiv((NIOBUF - nfiles) * IOBUFLEN, CDiv(typecode, 10))

\* the rows of a table that fit into them, one at least
GrszTable(nfiles, rowlength) ==
  maxvalue(1, CDiv((NIOBUF - nfiles) * IOBUFLEN, maxvalue(1, rowlength)))

\* optimal amount of data to access at one time; typecode is the data type
\* ffgtcl reports for the image and rowlength the row length of the table.
\* The amount is returned in out.
ffgrsz(s, f, typecode, rowlength) ==
  IF s.fault THEN s
  ELSE [s EXCEPT !.out =
          <<IF s.Fptr[f].hdutype = IMAGE_HDU
            THEN GrszImage(fits_get_num_files(s), typecode)
            ELSE GrszTable(fits_get_num_files(s), rowlength)>>]

(* ---------------------------- the open files --------------------------- *)
\* Bytes a caller writes: the n distinct bytes v, v + 1, ...
UserData == {65}
Pattern(v, n) == [i \in 1 .. n |-> v + i - 1]

\* a FITSfile structure as the file-open code leaves it: positioned at the
\* start, logical size equal to the physical size, no current buffer
FileInit(size, hdutype) ==
  [bytepos |-> 0, io_pos |-> 0, filesize |-> size, logfilesize |-> size,
   curbuf |-> -1, hdutype |-> hdutype]

\* the disk files that exist before the program starts: file 1 is empty or
\* holds one record of old data, the other files are empty
OldData == {57}
InitDisks ==
  {[f \in Files |-> IF f = 1 THEN d ELSE << >>] :
     d \in {<< >>} \cup {[i \in 1 .. IOBUFLEN |-> b] : b \in OldData}}

\* file 1 is an image or an ASCII table, the other files are images
InitTypes ==
  {[f \in Files |-> IF f = 1 THEN h ELSE IMAGE_HDU] : h \in {IMAGE_HDU, ASCII_TBL}}

NoCall == [op |-> "none", f |-> 0, status |-> 0, pos |-> 0, n |-> 0,
           rec |-> 0, mode |-> 0, out |-> << >>, afterseek |-> FALSE,
           wlog |-> << >>, clog |-> << >>]

\* the state before the first call; calls public calls may follow
InitProgram(calls) ==
  /\ iobuffer = [a \in 0 .. (MemSize - 1) |-> 0]
  /\ bufptr = [ii \in Bufs |-> NULL]
  /\ bufrecnum = [ii \in Bufs |-> 0]
  /\ dirty = [ii \in Bufs |-> FALSE]
  /\ ageindex = [ii \in Bufs |-> 0]
  /\ ageinit = 0
  /\ \E d \in InitDisks, h \in InitTypes :
       /\ disk = d
       /\ Fptr = [f \in Files |-> FileInit(Len(d[f]), h[f])]
  /\ drvpos = [f \in Files |-> 0]
  /\ fault = FALSE
  /\ last = NoCall
  /\ written = [f \in Files |-> [p \in 0 .. (MaxPos - 1) |-> {}]]
  /\ failed = FALSE
  /\ nops = calls

\* one run only
NoSolo == [fault |-> FALSE]

InitPool(calls) == InitProgram(calls) /\ solo = NoSolo

\* the second run starts in the same state, with a driver that never fails
InitBoth(calls) ==
  /\ InitProgram(calls)
  /\ solo = [iobuffer |-> iobuffer, bufptr |-> bufptr, bufrecnum |-> bufrecnum,
             dirty |-> dirty, ageindex |-> ageindex, ageinit |-> ageinit,
             Fptr |-> Fptr, disk |-> disk, drvpos |-> drvpos, fault |-> fault,
             status |-> 0, out |-> << >>, wleft |-> -1, wlog |-> << >>,
             clog |-> << >>]

\* the driver never fails and every call starts with status 0
Plain == wleft = -1 /\ chain = FALSE

\* the status a call starts with
Entry == IF chain THEN last.status ELSE 0

\* the program state after a call that ended in state s; a call that faults
\* does not return: the process is gone and only what it has already sent
\* to the driver remains
CommitProgram(s) ==
  /\ IF s.fault
     THEN UNCHANGED <<iobuffer, bufptr, bufrecnum, dirty, ageindex, ageinit,
                      Fptr, failed>>
     ELSE /\ iobuffer' = s.iobuffer
          /\ bufptr' = s.bufptr
          /\ bufrecnum' = s.bufrecnum
          /\ dirty' = s.dirty
          /\ ageindex' = s.ageindex
          /\ ageinit' = s.ageinit
          /\ Fptr' = s.Fptr
          /\ failed' = (failed \/ s.status # 0)
  /\ disk' = s.disk
  /\ drvpos' = s.drvpos
  /\ fault' = s.fault
  /\ nops' = nops - 1
  /\ wleft' = s.wleft
  /\ chain' = chain

\* the call is one of the run observed only; the second run, in which the
\* calls for the other files are left out, stays where it is
Commit(s) == CommitProgram(s) /\ solo' = solo

\* the state in which the second run starts its next call
SoloEntry == [solo EXCEPT !.status = 0, !.out = << >>, !.wlog = << >>,
                          !.clog = << >>]

\* a call is made while the process is alive
CanCall == ~fault /\ nops > 0

\* the words that can be found at bufrecnum[curbuf] when the file has no
\* current buffer (curbuf = -1 indexes outside the array)
OobWords(f) == IF Fptr[f].curbuf \in Bufs THEN {0} ELSE 0 .. (MaxRec - 1)

\* the description of a call of op on file f that returned state s
Call(op, f, s, pos, n, rec, mode) ==
  [op |-> op, f |-> f, status |-> s.status, pos |-> pos, n |-> n,
   rec |-> rec, mode |-> mode, out |-> s.out,
   afterseek |-> (last.op = "ffmbyt" /\ last.f = f /\ last.status = 0
                    /\ last.mode = REPORT_EOF),
   wlog |-> s.wlog, clog |-> s.clog]

\* what the caller has written at each position (the set of the last value
\* written there, empty where nothing was written): the bytes of buffer are
\* now the last values written at positions at(1), at(2), ...
Record(f, buffer, at(_)) ==
  [written EXCEPT ![f] =
     [p \in 0 .. (MaxPos - 1) |->
        IF \E i \in 1 .. Len(buffer) : at(i) = p
        THEN {buffer[CHOOSE i \in 1 .. Len(buffer) : at(i) = p]}
        ELSE written[f][p]]]

\* the call of op on file f returns in state s
Return(op, f, s, pos, n, rec, mode) ==
  Commit(s) /\ last' = Call(op, f, s, pos, n, rec, mode)

(* ------------------------------- actions ------------------------------- *)
\* seek_to(f, pos, err_mode)
DoMbyt(f, pos, mode) ==
  /\ CanCall
  /\ \E oob \in OobWords(f) :
       Return("ffmbyt", f, ffmbyt(State(Entry), f, pos, mode, oob), pos, 0, 0, mode)
  /\ UNCHANGED written

\* write_bytes(f, n, src)
DoPbyt(f, n, v) ==
  /\ CanCall
  /\ Fptr[f].bytepos + n <= MaxPos
  /\ \E oob \in OobWords(f) :
       Return("ffpbyt", f, ffpbyt(State(Entry), f, Pattern(v, n), oob),
              Fptr[f].bytepos, n, 0, 0)
  /\ written' = Record(f, Pattern(v, n), LAMBDA i : Fptr[f].bytepos + i - 1)

\* read_bytes(f, n, dst)
DoGbyt(f, n) ==
  /\ CanCall
  /\ Fptr[f].bytepos + n <= MaxPos
  /\ \E oob \in OobWords(f) :
       Return("ffgbyt", f, ffgbyt(State(Entry), f, n, oob), Fptr[f].bytepos, n, 0, 0)
  /\ UNCHANGED written

\* the span of a strided transfer
Span(gsize, ngroups, offset) == ngroups * gsize + (ngroups - 1) * offset

\* write_groups(f, gsize, ngroups, gap, src)
DoPbytoff(f, gsize, ngroups, offset, v) ==
  /\ CanCall
  /\ Fptr[f].bytepos + Span(gsize, ngroups, offset) <= MaxPos
  /\ \E oob \in OobWords(f) :
       Return("ffpbytoff", f,
              ffpbytoff(State(Entry), f, gsize, ngroups, offset,
                        Pattern(v, gsize * ngroups), oob),
              Fptr[f].bytepos, gsize, ngroups, offset)
  /\ written' = Record(f, Pattern(v, gsize * ngroups),
                       LAMBDA i : Fptr[f].bytepos
                                    + ((i - 1) \div gsize) * (gsize + offset)
                                    + ((i - 1) % gsize))

\* read_groups(f, gsize, ngroups, gap, dst)
DoGbytoff(f, gsize, ngroups, offset) ==
  /\ CanCall
  /\ Fptr[f].bytepos + Span(gsize, ngroups, offset) <= MaxPos
  /\ \E oob \in OobWords(f) :
       Return("ffgbytoff", f, ffgbytoff(State(Entry), f, gsize, ngroups, offset, oob),
              Fptr[f].bytepos, gsize, ngroups, offset)
  /\ UNCHANGED written

\* load_block(f, b, err_mode)
DoLdrc(f, record, mode) ==
  /\ CanCall
  /\ Return("ffldrc", f, ffldrc(State(Entry), f, record, mode), 0, 0, record, mode)
  /\ UNCHANGED written

\* flush_file(f, clear)
DoFlsh(f, clearbuf) ==
  /\ CanCall
  /\ Return("ffflsh", f, ffflsh(State(Entry), f, clearbuf), 0, 0, 0,
            IF clearbuf THEN 1 ELSE 0)
  /\ UNCHANGED written

\* drop_beyond_eof(f): what was written to the dropped records is given up
DoBfeof(f) ==
  /\ CanCall
  /\ Return("ffbfeof", f, ffbfeof(State(Entry), f), 0, 0, 0, 0)
  /\ written' = [written EXCEPT ![f] =
       [p \in 0 .. (MaxPos - 1) |->
          IF \E ii \in Bufs : /\ bufptr[ii] = f
                              /\ bufrecnum[ii] * IOBUFLEN >= Fptr[f].filesize
                              /\ bufrecnum[ii] = p \div IOBUFLEN
          THEN {} ELSE written[f][p]]]

\* optimal_chunk(f) on an HDU whose pixels have type typecode and whose rows
\* are rowlength bytes long
DoGrsz(f, typecode, rowlength) ==
  /\ CanCall
  /\ Return("ffgrsz", f, ffgrsz(State(Entry), f, typecode, rowlength),
            0, typecode, rowlength, 0)
  /\ UNCHANGED written

\* the typed read of nvals bytes at byteloc, incre bytes apart
DoGi1b(f, byteloc, nvals, incre) ==
  /\ CanCall
  /\ byteloc + (nvals - 1) * incre + 1 <= MaxPos
  /\ \E oob \in OobWords(f) :
       Return("ffgi1b", f, ffgi1b(State(Entry), f, byteloc, nvals, incre, oob),
              byteloc, nvals, 0, incre)
  /\ UNCHANGED written

\* seek_to(f, pos, ignore_eof); write_bytes(f, n, src); flush_file(f, true);
\* seek_to(f, pos, report_eof); read_bytes(f, n, dst) with one status
DoRoundTrip(f, pos, n, v) ==
  /\ CanCall
  /\ pos + n <= MaxPos
  /\ \E oob \in OobWords(f) :
       Return("roundtrip", f,
              ffgbyt(
                ffmbyt(
                  ffflsh(
                    ffpbyt(ffmbyt(State(Entry), f, pos, IGNORE_EOF, oob),
                           f, Pattern(v, n), oob),
                    f, TRUE),
                  f, pos, REPORT_EOF, oob),
                f, n, oob),
              pos, n, 0, 0)
  /\ written' = Record(f, Pattern(v, n), LAMBDA i : pos + i - 1)

\* seek_to(f, pos, ignore_eof); write_bytes(f, n, src); flush_file(f, clear)
\* with one status
DoWriteFlush(f, pos, n, v, clearbuf) ==
  /\ CanCall
  /\ pos + n <= MaxPos
  /\ \E oob \in OobWords(f) :
       Return("writeflush", f,
              ffflsh(ffpbyt(ffmbyt(State(Entry), f, pos, IGNORE_EOF, oob),
                            f, Pattern(v, n), oob),
                     f, clearbuf),
              pos, n, 0, IF clearbuf THEN 1 ELSE 0)
  /\ written' = Record(f, Pattern(v, n), LAMBDA i : pos + i - 1)

\* seek_to(f, pos, ignore_eof); write_groups(f, gsize, ngroups, gap, src);
\* seek_to(f, pos, report_eof); read_groups(f, gsize, ngroups, gap, dst)
\* with one status
DoStridedTrip(f, pos, gsize, ngroups, offset, v) ==
  /\ CanCall
  /\ pos + Span(gsize, ngroups, offset) <= MaxPos
  /\ \E oob \in OobWords(f) :
       Return("stridedtrip", f,
              ffgbytoff(
                ffmbyt(
                  ffpbytoff(ffmbyt(State(Entry), f, pos, IGNORE_EOF, oob),
                            f, gsize, ngroups, offset,
                            Pattern(v, gsize * ngroups), oob),
                  f, pos, REPORT_EOF, oob),
                f, gsize, ngroups, offset, oob),
              pos, gsize, ngroups, offset)
  /\ written' = Record(f, Pattern(v, gsize * ngroups),
                       LAMBDA i : pos + ((i - 1) \div gsize) * (gsize + offset)
                                    + ((i - 1) % gsize))

\* seek_to(f, pos, ignore_eof); write_groups(f, gsize, ngroups, gap, src)
\* with one status
DoStridedWrite(f, pos, gsize, ngroups, offset, v) ==
  /\ CanCall
  /\ pos + Span(gsize, ngroups, offset) <= MaxPos
  /\ \E oob \in OobWords(f) :
       Return("stridedwrite", f,
              ffpbytoff(ffmbyt(State(Entry), f, pos, IGNORE_EOF, oob),
                        f, gsize, ngroups, offset,
                        Pattern(v, gsize * ngroups), oob),
              pos, gsize, ngroups, offset)
  /\ written' = Record(f, Pattern(v, gsize * ngroups),
                       LAMBDA i : pos + ((i - 1) \div gsize) * (gsize + offset)
                                    + ((i - 1) % gsize))

(* --------- calls made in two runs, with and without other files -------- *)
\* the call of op on file f returns in state s in the run observed and in
\* state t in the run without the calls for the other files
BothReturn(op, f, s, t, pos, n, rec, mode) ==
  /\ CommitProgram(s)
  /\ solo' = t
  /\ last' = Call(op, f, s, pos, n, rec, mode)

\* seek_to(f, pos, err_mode) in both runs
BothMbyt(f, pos, mode) ==
  /\ CanCall
  /\ \E oob \in OobWords(f) :
       BothReturn("ffmbyt", f, ffmbyt(State(Entry), f, pos, mode, oob),
                  ffmbyt(SoloEntry, f, pos, mode, oob), pos, 0, 0, mode)
  /\ UNCHANGED written

\* write_bytes(f, n, src) in both runs
BothPbyt(f, n, v) ==
  /\ CanCall
  /\ Fptr[f].bytepos + n <= MaxPos
  /\ solo.Fptr[f].bytepos + n <= MaxPos
  /\ \E oob \in OobWords(f) :
       BothReturn("ffpbyt", f, ffpbyt(State(Entry), f, Pattern(v, n), oob),
                  ffpbyt(SoloEntry, f, Pattern(v, n), oob),
                  Fptr[f].bytepos, n, 0, 0)
  /\ written' = Record(f, Pattern(v, n), LAMBDA i : Fptr[f].bytepos + i - 1)

\* read_bytes(f, n, dst) in both runs
BothGbyt(f, n) ==
  /\ CanCall
  /\ Fptr[f].bytepos + n <= MaxPos
  /\ solo.Fptr[f].bytepos + n <= MaxPos
  /\ \E oob \in OobWords(f) :
       BothReturn("ffgbyt", f, ffgbyt(State(Entry), f, n, oob),
                  ffgbyt(SoloEntry, f, n, oob), Fptr[f].bytepos, n, 0, 0)
  /\ UNCHANGED written

\* flush_file(f, clear) in both runs
BothFlsh(f, clearbuf) ==
  /\ CanCall
  /\ BothReturn("ffflsh", f, ffflsh(State(Entry), f, clearbuf),
                ffflsh(SoloEntry, f, clearbuf), 0, 0, 0,
                IF clearbuf THEN 1 ELSE 0)
  /\ UNCHANGED written

(* ------------------- the whole interface, all files -------------------- *)
Positions == -1 .. (MaxPos - 1)
Records == 0 .. (MaxRec - 1)
Modes == {REPORT_EOF, IGNORE_EOF}
Lengths == {1, IOBUFLEN + 1, MINDIRECT}
Groups == {<<1, 2, 1>>, <<IOBUFLEN + 1, 2, 0>>}

Init == InitPool(MaxOps) /\ Plain

Next ==
  \/ \E f \in Files, pos \in Positions, mode \in Modes : DoMbyt(f, pos, mode)
  \/ \E f \in Files, n \in Lengths, v \in UserData : DoPbyt(f, n, v)
  \/ \E f \in Files, n \in Lengths : DoGbyt(f, n)
  \/ \E f \in Files, g \in Groups, v \in UserData : DoPbytoff(f, g[1], g[2], g[3], v)
  \/ \E f \in Files, g \in Groups : DoGbytoff(f, g[1], g[2], g[3])
  \/ \E f \in Files, r \in Records, mode \in Modes : DoLdrc(f, r, mode)
  \/ \E f \in Files, c \in BOOLEAN : DoFlsh(f, c)
  \/ \E f \in Files : DoBfeof(f)

Spec == Init /\ [][Next]_vars

(* ------------------- one file: seek, write, read, flush ----------------- *)
\* positions at the start and at the last byte of a record
EdgePositions == {r * IOBUFLEN : r \in 0 .. 1} \cup {IOBUFLEN - 1}

InitOne == InitPool(MaxOneOps) /\ Plain

NextOne ==
  \/ \E pos \in EdgePositions, mode \in Modes : DoMbyt(1, pos, mode)
  \/ \E n \in {1, MINDIRECT} : DoPbyt(1, n, 65)
  \/ DoGbyt(1, 1)
  \/ \E c \in BOOLEAN : DoFlsh(1, c)

SpecOne == InitOne /\ [][NextOne]_vars

(* ----------------- the pool: loads, flushes and drops ------------------ *)
InitPoolOps == InitPool(MaxPoolOps) /\ Plain

NextPool ==
  \/ \E f \in Files, r \in Records, mode \in Modes : DoLdrc(f, r, mode)
  \/ \E n \in {1, MINDIRECT} : DoPbyt(1, n, 65)
  \/ \E f \in Files, c \in BOOLEAN : DoFlsh(f, c)
  \/ DoBfeof(1)

SpecPool == InitPoolOps /\ [][NextPool]_vars

(* --------------- two files: loads, flushes and round trips -------------- *)
\* the first byte of the file and the last byte of the first two records
TripPositions == {0, IOBUFLEN - 1, 2 * IOBUFLEN - 1}

InitTrip == InitPool(MaxTripOps) /\ Plain

NextTrip ==
  \/ \E f \in 1 .. 2, r \in 0 .. 1 : DoLdrc(f, r, IGNORE_EOF)
  \/ \E f \in 1 .. 2 : DoFlsh(f, TRUE)
  \/ \E pos \in TripPositions, n \in Lengths : DoRoundTrip(1, pos, n, 65)

SpecTrip == InitTrip /\ [][NextTrip]_vars

(* ------------ file sizes: loads, writes and flushes of a file ----------- *)
InitSize == InitPool(MaxSizeOps) /\ Plain

NextSize ==
  \/ \E pos \in EdgePositions : DoMbyt(1, pos, IGNORE_EOF)
  \/ \E n \in {1, MINDIRECT} : DoPbyt(1, n, 65)
  \/ \E g \in Groups : DoPbytoff(1, g[1], g[2], g[3], 65)
  \/ \E f \in 1 .. 2, r \in {0, MaxRec - 1} : DoLdrc(f, r, IGNORE_EOF)
  \/ \E c \in BOOLEAN : DoFlsh(1, c)

SpecSize == InitSize /\ [][NextSize]_vars

(* ------- scenarios: write and flush, strided round trips, loads -------- *)
\* group geometries <<gsize, ngroups, gap>>: single bytes with and without a
\* gap, a group longer than a record, a group longer than two records
Geometries ==
  {<<1, 2, 1>>, <<1, 3, 0>>, <<IOBUFLEN + 1, 1, 0>>, <<2 * IOBUFLEN + 1, 1, 0>>}

InitScen == InitPool(MaxScenOps) /\ Plain

\* the start and the last byte of the first record, the start of the next
\* two records
ScenPositions == {0, IOBUFLEN - 1, IOBUFLEN, 2 * IOBUFLEN}

\* one byte, one record, the shortest direct write
ScenLengths == {1, IOBUFLEN, MINDIRECT}

NextScen ==
  \/ \E pos \in ScenPositions, n \in ScenLengths, c \in BOOLEAN :
        DoWriteFlush(1, pos, n, 65, c)
  \/ \E pos \in {0, IOBUFLEN - 1}, g \in Geometries :
        DoStridedTrip(1, pos, g[1], g[2], g[3], 65)
  \/ \E f \in Files \ {1}, r \in 0 .. 1 : DoLdrc(f, r, IGNORE_EOF)

SpecScen == InitScen /\ [][NextScen]_vars

(* ---------- one status variable handed from call to call -------------- *)
\* the caller starts every call with the status the previous call returned
InitStatus == InitPool(MaxStatusOps) /\ wleft = -1 /\ chain = TRUE

NextStatus ==
  \/ \E f \in 1 .. 2, pos \in {-1, 0, IOBUFLEN}, mode \in Modes : DoMbyt(f, pos, mode)
  \/ \E n \in {1, MINDIRECT} : DoPbyt(1, n, 65)
  \/ \E n \in {1, MINDIRECT} : DoGbyt(1, n)
  \/ \E g \in Groups : DoPbytoff(1, g[1], g[2], g[3], 65)
  \/ \E g \in Groups : DoGbytoff(1, g[1], g[2], g[3])
  \/ \E f \in 1 .. 2, r \in 0 .. 1, mode \in Modes : DoLdrc(f, r, mode)
  \/ \E f \in 1 .. 2, c \in BOOLEAN : DoFlsh(f, c)
  \/ DoBfeof(1)

SpecStatus == InitStatus /\ [][NextStatus]_vars

(* ------------------- a driver that fails one write --------------------- *)
\* the driver fails the first, the second, ... write it is asked for
InitFail ==
  InitPool(MaxFailOps) /\ wleft \in 0 .. (MaxGoodWrites) /\ chain = FALSE

NextFail ==
  \/ \E f \in 1 .. 2, r \in Records : DoLdrc(f, r, IGNORE_EOF)
  \/ \E pos \in EdgePositions : DoMbyt(1, pos, IGNORE_EOF)
  \/ \E n \in {1, MINDIRECT} : DoPbyt(1, n, 65)
  \/ \E f \in 1 .. 2, c \in BOOLEAN : DoFlsh(f, c)

SpecFail == InitFail /\ [][NextFail]_vars

(* ------------------- the optimal size of a transfer -------------------- *)
\* the data types of the pixels: TBYTE and TSHORT
TypeCodes == {11, 21}
\* the row lengths of the tables
RowLengths == {0, 1, IOBUFLEN + 1}

InitChunk == InitPool(MaxChunkOps) /\ Plain

NextChunk ==
  \/ \E f \in Files, r \in 0 .. 1 : DoLdrc(f, r, IGNORE_EOF)
  \/ \E f \in Files : DoFlsh(f, TRUE)
  \/ \E f \in 1 .. 2, tc \in TypeCodes, rl \in RowLengths : DoGrsz(f, tc, rl)

SpecChunk == InitChunk /\ [][NextChunk]_vars

(* ----------------- seeks, small writes and typed reads ----------------- *)
InitTyped == InitPool(MaxTypedOps) /\ Plain

NextTyped ==
  \/ \E pos \in {0, IOBUFLEN, 2 * IOBUFLEN}, mode \in Modes : DoMbyt(1, pos, mode)
  \/ DoPbyt(1, 1, 65)
  \/ \E b \in {0, IOBUFLEN}, n \in {1, MINDIRECT}, incre \in {1, 2} :
        DoGi1b(1, b, n, incre)
  \/ \E n \in {1, MINDIRECT} : DoGbyt(1, n)

SpecTyped == InitTyped /\ [][NextTyped]_vars

(* ------------------- strided writes after loads ----------------------- *)
\* the geometries of SpecScen and two groups of one record, one record apart
StrideGeometries == Geometries \cup {<<IOBUFLEN, 2, IOBUFLEN>>}

InitStride == InitPool(MaxStrideOps) /\ Plain

NextStride ==
  \/ \E pos \in 0 .. IOBUFLEN, g \in StrideGeometries :
        DoStridedWrite(1, pos, g[1], g[2], g[3], 65)
  \/ \E f \in 1 .. 2, r \in 0 .. 1 : DoLdrc(f, r, IGNORE_EOF)

SpecStride == InitStride /\ [][NextStride]_vars

(* ---- two files: file 1 in two runs, with and without calls for file 2 -- *)
InitIso == InitBoth(MaxIsoOps) /\ Plain

NextIso ==
  \/ \E pos \in {0, IOBUFLEN}, mode \in Modes : BothMbyt(1, pos, mode)
  \/ BothPbyt(1, 1, 65)
  \/ BothGbyt(1, 1)
  \/ \E c \in BOOLEAN : BothFlsh(1, c)
  \/ \E pos \in {0, IOBUFLEN} : DoMbyt(2, pos, IGNORE_EOF)
  \/ DoPbyt(2, 1, 66)
  \/ \E r \in 0 .. 1 : DoLdrc(2, r, IGNORE_EOF)
  \/ \E c \in BOOLEAN : DoFlsh(2, c)

SpecIso == InitIso /\ [][NextIso]_vars

(* ============================== properties ============================= *)
\* the bytes the caller wrote last at positions pos .. pos+n-1 of file f are
\* the bytes of out, wherever the caller has written
SeesWritten(f, pos, n, out) ==
  \A i \in 1 .. n :
     \A v \in written[f][pos + i - 1] : i <= Len(out) /\ out[i] = v

\* C1: after successful calls only, seek_to(f, p, report_eof) followed by
\* read_bytes(f, n)
\* returns at every position of [p, p+n) the value written there last.
C1_ReadAfterWrite ==
  (last.op = "ffgbyt" /\ last.afterseek /\ ~failed /\ ~fault)
     => SeesWritten(last.f, last.pos, last.n, last.out)

\* C2: once flush_file(f, clear) has returned success, the disk holds at every
\* position written through the core the value written there last.
C2_FlushDurability ==
  (last.op = "ffflsh" /\ ~failed /\ ~fault)
     => \A p \in 0 .. (MaxPos - 1) :
           \A v \in written[last.f][p] :
              p < Len(disk[last.f]) /\ disk[last.f][p + 1] = v

\* C3: seek_to(f, pos); write_bytes(f, bytes); flush_file(f, true);
\* seek_to(f, pos); read_bytes(f, |bytes|) returns exactly bytes.
C3_RoundTrip ==
  (last.op = "roundtrip" /\ last.status = 0 /\ ~fault)
     => last.out = Pattern(65, last.n)

\* C4: for every file and record, at most one buffer holds that record of
\* that file.
C4_Uniqueness ==
  \A i \in Bufs, j \in Bufs :
     (i # j /\ bufptr[i] # NULL /\ bufptr[i] = bufptr[j])
        => bufrecnum[i] # bufrecnum[j]

\* C4 witness: a load has given a file a second buffer.
C4_Witness ==
  /\ \E i \in Bufs, j \in Bufs : i # j /\ bufptr[i] # NULL /\ bufptr[i] = bufptr[j]
  /\ last.op = "ffldrc" /\ last.status = 0 /\ ~fault

\* C5: the current buffer of every file is unset or a buffer that file owns.
C5_CurBlockOwned ==
  \A f \in Files : Fptr[f].curbuf = -1 \/ bufptr[Fptr[f].curbuf] = f

\* C6: right after flush_file(f, clear) returned, no buffer of f is dirty.
C6_FlushPurity ==
  (last.op = "ffflsh" /\ ~fault)
     => \A ii \in Bufs : bufptr[ii] = last.f => ~dirty[ii]

\* C6 witness: a flush that kept the buffers has put a byte the caller wrote
\* into a buffer of the file onto the disk.
C6_Witness ==
  /\ last.op = "ffflsh" /\ last.mode = 0 /\ ~fault
  /\ \E ii \in Bufs, p \in 0 .. (MaxPos - 1) :
        /\ bufptr[ii] = last.f /\ bufrecnum[ii] = p \div IOBUFLEN
        /\ written[last.f][p] # {}
        /\ p < Len(disk[last.f]) /\ disk[last.f][p + 1] \in written[last.f][p]

\* C7: after every call the logical size of every file is at least its
\* physical size and a multiple of the record length.
C7_SizeMonotone ==
  \A f \in Files :
     /\ Fptr[f].logfilesize >= Fptr[f].filesize
     /\ Fptr[f].logfilesize % IOBUFLEN = 0

\* C7 witness: a file that was empty has been extended by a writeback.
C7_Witness ==
  \E f \in Files \ {1} : ~fault /\ Fptr[f].filesize >= IOBUFLEN
                           /\ Len(disk[f]) = Fptr[f].filesize

IsPermutation(age) == \A n \in Bufs : \E k \in Bufs : age[k] = n

\* age with nbuff moved to the youngest end, the others in their order
MoveYoungest(age, nbuff) ==
  LET others == SelectSeq([i \in 1 .. NIOBUF |-> age[i - 1]], LAMBDA x : x # nbuff)
  IN [k \in Bufs |-> IF k < NIOBUF - 1 THEN others[k + 1] ELSE nbuff]

\* C8 as stated: the age index is a permutation of 0..N-1 in every state,
\* the initial state included.
C8_AgePermutation == IsPermutation(ageindex)

\* C8 amended: from the first call of the selector on the age index is a
\* permutation of 0..N-1 (the selector starts it as the identity), and a
\* successful load moves the adopted buffer to the youngest end and keeps
\* the order of the others.
C8_AgePermutationOnceInitialised ==
  /\ [](ageinit = 1 => IsPermutation(ageindex))
  /\ [][(last'.op = "ffldrc" /\ last'.status = 0 /\ ~fault')
          => ageindex' = MoveYoungest(IF ageinit = 0 THEN [ii \in Bufs |-> ii]
                                      ELSE ageindex,
                                      Fptr'[last'.f].curbuf)]_vars

\* C8 witness: a load has changed the order of an initialised age index.
C8_Witness ==
  /\ last.op = "ffldrc" /\ last.status = 0 /\ ~fault /\ ageinit = 1
  /\ ageindex # [ii \in Bufs |-> ii]
  /\ ageindex[NIOBUF - 1] = Fptr[last.f].curbuf

\* the record is not loaded for the file in the state before the call
NotResident(f, record) ==
  \A ii \in Bufs : ~(bufptr[ii] = f /\ bufrecnum[ii] = record)

\* the load is not turned away by the EOF check
PassesEof(f, record, mode) ==
  mode = IGNORE_EOF \/ record * IOBUFLEN < Fptr[f].logfilesize

\* the buffer is the current buffer of a file other than f
CurrentOfOther(f, ibuff) == \E g \in Files \ {f} : Fptr[g].curbuf = ibuff

\* C9: the buffer chosen for a load by file f is never the current buffer of
\* another file, and it is the current buffer of f only if no buffer is empty
\* or unlocked.
C9_Pinning ==
  [][(last'.op = "ffldrc" /\ NotResident(last'.f, last'.rec)
        /\ PassesEof(last'.f, last'.rec, last'.mode)
        /\ ffwhbf(State(0), last'.f) >= 0)
       => LET f == last'.f
              victim == ffwhbf(State(0), f)
          IN /\ ~CurrentOfOther(f, victim)
             /\ victim = Fptr[f].curbuf
                   => \A ii \in Bufs : Locked(State(0), ii)]_vars

\* every buffer is the current buffer of the file that owns it
AllLocked == \A ii \in Bufs : bufptr[ii] # NULL /\ Fptr[bufptr[ii]].curbuf = ii

\* C10 as stated: a load of a record that is not loaded fails with
\* TOO_MANY_FILES exactly if every buffer is the current buffer of its owner
\* and the file has no current buffer.
C10_TooManyFiles ==
  [][(last'.op = "ffldrc" /\ NotResident(last'.f, last'.rec))
       => (last'.status = TOO_MANY_FILES
             <=> (AllLocked /\ Fptr[last'.f].curbuf = -1))]_vars

\* C10 amended: a load of a record that is not loaded and that the EOF check
\* lets pass fails with TOO_MANY_FILES exactly if every buffer is the current
\* buffer of its owner and the file has no current buffer; so a file that has
\* a current buffer never gets TOO_MANY_FILES.
C10_TooManyFilesPastEofCheck ==
  [][(last'.op = "ffldrc" /\ NotResident(last'.f, last'.rec)
        /\ PassesEof(last'.f, last'.rec, last'.mode))
       => (last'.status = TOO_MANY_FILES
             <=> (AllLocked /\ Fptr[last'.f].curbuf = -1))]_vars

\* C10 witness: a load has failed with TOO_MANY_FILES while every buffer is
\* locked, and the file still has no current buffer.
C10_Witness ==
  /\ last.op = "ffldrc" /\ last.status = TOO_MANY_FILES
  /\ AllLocked /\ Fptr[last.f].curbuf = -1

\* every buffer holds the current record of a different file and file f has
\* no buffer: the state after NIOBUF other files have loaded one record each
OneBlockEach(f) ==
  /\ AllLocked
  /\ \A i \in Bufs, j \in Bufs : i # j => bufptr[i] # bufptr[j]
  /\ Fptr[f].curbuf = -1
  /\ \A ii \in Bufs : bufptr[ii] # f

\* C11 as stated: when NIOBUF files have loaded one record each, the load of
\* a record by one more file succeeds and gives that file a buffer.
C11_ExtraFileLoads ==
  [][(last'.op = "ffldrc" /\ OneBlockEach(last'.f)
        /\ PassesEof(last'.f, last'.rec, last'.mode))
       => /\ last'.status = 0
          /\ \E ii \in Bufs : /\ bufptr'[ii] = last'.f
                              /\ bufrecnum'[ii] = last'.rec
                              /\ Fptr'[last'.f].curbuf = ii]_vars

\* C11 amended: when NIOBUF files have loaded one record each, the load of a
\* record by one more file fails with TOO_MANY_FILES and reuses no buffer:
\* the pool, the age index, the files and the disk stay as they are.
C11_ExtraFileRefused ==
  [][(last'.op = "ffldrc" /\ OneBlockEach(last'.f)
        /\ PassesEof(last'.f, last'.rec, last'.mode))
       => /\ last'.status = TOO_MANY_FILES
          /\ UNCHANGED <<iobuffer, bufptr, bufrecnum, dirty, ageindex,
                         Fptr, disk>>]_vars

\* C11 witness: NIOBUF files hold one buffer each and the load by one more
\* file has just been refused.
C11_Witness ==
  /\ last.op = "ffldrc" /\ last.status = TOO_MANY_FILES /\ ~fault
  /\ OneBlockEach(last.f)
  /\ Cardinality({bufptr[ii] : ii \in Bufs}) = NIOBUF

\* file f is as the file-open code left it: nothing of it is in the pool
FreshFile(f) ==
  /\ Fptr[f] = FileInit(Len(disk[f]), Fptr[f].hdutype)
  /\ \A ii \in Bufs : bufptr[ii] # f

\* the call has written one whole record at a record boundary beyond the end
\* of a file that was fresh, and has flushed the file
ExtendsBy(f) ==
  /\ last'.op = "writeflush" /\ last'.f = f /\ last'.status = 0 /\ ~fault'
  /\ FreshFile(f)
  /\ last'.n = IOBUFLEN /\ last'.pos % IOBUFLEN = 0 /\ last'.pos > Len(disk[f])

\* C12: after one record is written at offset k*L beyond the initial file
\* size and the file is flushed, the disk file is (k+1)*L bytes long, the
\* bytes from the initial size up to k*L are the fill byte of the HDU and the
\* bytes from k*L on are the user data.
C12_ExtensionContent ==
  [][\A f \in Files :
       ExtendsBy(f)
         => /\ Len(disk'[f]) = last'.pos + IOBUFLEN
            /\ \A p \in Len(disk[f]) .. (last'.pos - 1) :
                  p < Len(disk'[f])
                    /\ disk'[f][p + 1] = FillByte(Fptr[f].hdutype)
            /\ \A i \in 1 .. IOBUFLEN :
                  last'.pos + i <= Len(disk'[f])
                    /\ disk'[f][last'.pos + i] = Pattern(65, IOBUFLEN)[i]]_vars

\* buffer ii holds a modified record of file f beyond the end of the disk file
DirtyPastEof(f, ii) ==
  bufptr[ii] = f /\ dirty[ii] /\ bufrecnum[ii] * IOBUFLEN >= Len(disk[f])

\* the writes of a write log that extend a file
Extending(log) ==
  {i \in 1 .. Len(log) : log[i].ok /\ log[i].pos + Len(log[i].data) > log[i].eof}

\* several modified records of file f lie beyond the end of the file and the
\* call is one whose only driver writes are those of the writeback routine
WritesBackSeveral(f) ==
  /\ last'.op \in {"ffflsh", "ffldrc"} /\ last'.f = f /\ ~fault'
  /\ \E i \in Bufs, j \in Bufs : i # j /\ DirtyPastEof(f, i) /\ DirtyPastEof(f, j)

\* C13: when several modified records of a file lie beyond the end of the
\* file, the writes that extend the file are each made exactly at the end of
\* the file, at increasing offsets, every record of the extension is written
\* exactly once, a record that is in no buffer is written as zeros, and every
\* buffered record written lands at its own offset (so never before a
\* buffered record of lower number).
C13_MonotoneExtension ==
  [][\A f \in Files :
       WritesBackSeveral(f)
         => LET log == last'.wlog
                ext == Extending(log)
            IN /\ \A i \in ext : log[i].f = f /\ log[i].pos = log[i].eof
               /\ \A i \in ext, j \in ext : i < j => log[i].pos < log[j].pos
               /\ Cardinality(ext) * IOBUFLEN = Len(disk'[f]) - Len(disk[f])
               /\ \A ii \in Bufs :
                     (DirtyPastEof(f, ii)
                        /\ bufrecnum[ii] * IOBUFLEN < Len(disk'[f]))
                       => \E i \in ext :
                            /\ log[i].pos = bufrecnum[ii] * IOBUFLEN
                            /\ log[i].data = [k \in 1 .. IOBUFLEN |->
                                 iobuffer[ii * IOBUFLEN + k - 1]]
               /\ \A p \in Len(disk[f]) .. (Len(disk'[f]) - 1) :
                     IF \E ii \in Bufs : bufptr[ii] = f
                                           /\ bufrecnum[ii] = p \div IOBUFLEN
                     THEN \E ii \in Bufs :
                            /\ bufptr[ii] = f /\ bufrecnum[ii] = p \div IOBUFLEN
                            /\ disk'[f][p + 1]
                                 = iobuffer[ii * IOBUFLEN + (p % IOBUFLEN)]
                     ELSE disk'[f][p + 1] = 0]_vars

\* C13 witness: a flush has extended a file by a record of zeros and two
\* buffered records, the lower record from the buffer of higher index first.
C13_Witness ==
  /\ last.op = "ffflsh" /\ last.status = 0 /\ ~fault
  /\ Cardinality(Extending(last.wlog)) >= 3
  /\ \E i \in Bufs, j \in Bufs :
        /\ i < j /\ bufptr[i] = last.f /\ bufptr[j] = last.f
        /\ bufrecnum[i] > bufrecnum[j]
        /\ \E a \in Extending(last.wlog), b \in Extending(last.wlog) :
              /\ a < b
              /\ last.wlog[a].pos = bufrecnum[j] * IOBUFLEN
              /\ last.wlog[b].pos = bufrecnum[i] * IOBUFLEN

\* the call has sought, written and flushed with clearing a file that was
\* fresh, empty and not an ASCII table
WritesEmpty(f) ==
  /\ last'.op = "writeflush" /\ last'.f = f /\ last'.mode = 1
  /\ last'.status = 0 /\ ~fault'
  /\ FreshFile(f) /\ Len(disk[f]) = 0 /\ Fptr[f].hdutype # ASCII_TBL

\* C14: seek_to(f, p, ignore_eof); write_bytes(f, n, data); flush_file(f,
\* true) on an empty file that is not an ASCII table leaves a disk file of
\* (floor((p+n-1)/L)+1)*L bytes that holds data at [p, p+n) and zero
\* everywhere else.
C14_WriteToEmptyFile ==
  [][\A f \in Files :
       WritesEmpty(f)
         => /\ Len(disk'[f])
                 = (((last'.pos + last'.n - 1) \div IOBUFLEN) + 1) * IOBUFLEN
            /\ \A p \in 0 .. (Len(disk'[f]) - 1) :
                  disk'[f][p + 1]
                    = IF p >= last'.pos /\ p < last'.pos + last'.n
                      THEN Pattern(65, last'.n)[p - last'.pos + 1]
                      ELSE 0]_vars

\* C14 witness: a direct write that began inside the second record of an
\* empty file has been flushed, and the file begins with a record of zeros.
C14_Witness ==
  /\ last.op = "writeflush" /\ last.mode = 1 /\ last.status = 0 /\ ~fault
  /\ last.n >= MINDIRECT /\ last.pos >= IOBUFLEN
  /\ Len(disk[last.f]) = ((last.pos + last.n - 1) \div IOBUFLEN + 1) * IOBUFLEN
  /\ \A p \in 0 .. (IOBUFLEN - 1) : disk[last.f][p + 1] = 0
  /\ disk[last.f][last.pos + 1] = 65
  /\ \A p \in 0 .. (MaxPos - 1) : written[last.f][p] # {} =>
        (p >= last.pos /\ p < last.pos + last.n)

\* C15: seek_to(f, p); write_groups(f, gsize, ngroups, gap, src); seek_to(f,
\* p); read_groups(f, gsize, ngroups, gap, dst) yields dst = src, for groups
\* longer than a record too.
C15_StridedRoundTrip ==
  (last.op = "stridedtrip" /\ last.status = 0 /\ ~fault)
     => last.out = Pattern(65, last.n * last.rec)

\* C16: a public operation entered with a non-zero status returns that status
\* and leaves the pool, the age index, every file's state and the disk as
\* they are.
C16_StatusShortCircuit ==
  [][(chain /\ last.status # 0 /\ nops' # nops)
       => /\ last'.status = last.status
          /\ UNCHANGED <<iobuffer, bufptr, bufrecnum, dirty, ageindex,
                         Fptr, disk>>]_vars

\* the driver has failed a write of file f during the call, and the size of
\* f was the size of its disk file when the call began
WriteFailed(f) ==
  /\ nops' # nops /\ ~fault'
  /\ \E i \in 1 .. Len(last'.wlog) : ~last'.wlog[i].ok /\ last'.wlog[i].f = f
  /\ Fptr[f].filesize = Len(disk[f])

\* the driver has written the bytes of buffer ii, as they were when the call
\* began, at the offset of its record
WroteBuffer(log, ii) ==
  \E i \in 1 .. Len(log) :
     /\ log[i].ok /\ log[i].f = bufptr[ii]
     /\ log[i].pos = bufrecnum[ii] * IOBUFLEN
     /\ log[i].data = [k \in 1 .. IOBUFLEN |-> iobuffer[ii * IOBUFLEN + k - 1]]

\* C17: when the driver fails a write during a writeback, every buffer that
\* was modified and whose bytes were not written is still marked modified,
\* the extension loop (the only writer in a load) issues no write after the
\* failing one, and the file size is not beyond the data on the disk.
C17_FailedWritebackRetryable ==
  [][\A f \in Files :
       WriteFailed(f)
         => /\ \A ii \in Bufs :
                  (bufptr[ii] = f /\ dirty[ii] /\ bufptr'[ii] = f
                     /\ bufrecnum'[ii] = bufrecnum[ii]
                     /\ ~WroteBuffer(last'.wlog, ii))
                    => dirty'[ii]
            /\ last'.op = "ffldrc"
                  => \A i \in 1 .. Len(last'.wlog) :
                        ~last'.wlog[i].ok => i = Len(last'.wlog)
            /\ Fptr'[f].filesize <= Len(disk'[f])]_vars

\* C18: while every call has succeeded, the length of the disk file of every
\* file is its filesize, and right after flush_file of a file that has grown
\* beyond the record the disk held at first that length is a multiple of the
\* record length.
C18_SizeIsDiskSize ==
  (~failed /\ ~fault)
     => /\ \A f \in Files : Len(disk[f]) = Fptr[f].filesize
        /\ (last.op = "ffflsh" /\ Len(disk[last.f]) > IOBUFLEN)
              => Len(disk[last.f]) % IOBUFLEN = 0

\* the record lies at or beyond the logical end of the file
PastLogEof(f, record) == record * IOBUFLEN >= Fptr[f].logfilesize

\* the call is a load with REPORT_EOF of a record that is not loaded and
\* lies at or beyond the logical end of the file
EofLoad ==
  /\ last'.op = "ffldrc" /\ last'.mode = REPORT_EOF /\ ~fault
  /\ NotResident(last'.f, last'.rec) /\ PastLogEof(last'.f, last'.rec)

\* the call has left the buffers, the age index, the disk and the current
\* buffer and the sizes of file f as they were
EofLoadPure(f) ==
  /\ UNCHANGED <<iobuffer, bufptr, bufrecnum, dirty, ageindex, disk>>
  /\ Fptr'[f].curbuf = Fptr[f].curbuf
  /\ Fptr'[f].filesize = Fptr[f].filesize
  /\ Fptr'[f].logfilesize = Fptr[f].logfilesize

C20_SeekPostcondition ==
  [][(last'.op = "ffmbyt" /\ nops' # nops /\ ~fault'
        /\ Fptr[last'.f].curbuf \in Bufs)
       => /\ last'.pos < 0 => last'.status = NEG_FILE_POS
          /\ last'.status = 0
               => /\ Fptr'[last'.f].bytepos = last'.pos
                  /\ Fptr'[last'.f].curbuf \in Bufs
                  /\ bufptr'[Fptr'[last'.f].curbuf] = last'.f
                  /\ bufrecnum'[Fptr'[last'.f].curbuf]
                       = last'.pos \div IOBUFLEN]_vars

\* C21: the amount that optimal_chunk returns is at least 1, whatever the
\* number of files that own buffers and whatever the type of the HDU.
C21_ChunkAtLeastOne ==
  (last.op = "ffgrsz" /\ last.status = 0 /\ ~fault) => last.out[1] >= 1

\* the positions of the age index, as ffwhbf sees it, whose buffer is empty
\* or is not the current buffer of the file that owns it
Unpinned ==
  {k \in Bufs : ~Locked(State(0), AgeInitialised(State(0))[k])}

\* the buffer the claim gives to a load by file f: the oldest unpinned
\* buffer, the current buffer of f if there is none
OldestUnpinned(f) ==
  IF Unpinned # {}
  THEN AgeInitialised(State(0))[CHOOSE k \in Unpinned : \A j \in Unpinned : k <= j]
  ELSE Fptr[f].curbuf

\* C22: a load that needs a buffer gets the first buffer, in the order of
\* the age index from oldest to youngest, that is empty or is not the current
\* buffer of its owner, and the current buffer of the loading file if there
\* is no such buffer (and fails if the file has none).
C22_VictimIsOldestUnpinned ==
  [][(last'.op = "ffldrc" /\ ~fault' /\ NotResident(last'.f, last'.rec)
        /\ PassesEof(last'.f, last'.rec, last'.mode))
       => IF OldestUnpinned(last'.f) < 0
          THEN last'.status = TOO_MANY_FILES
          ELSE /\ last'.status # TOO_MANY_FILES
               /\ Fptr'[last'.f].curbuf = OldestUnpinned(last'.f)
               /\ bufptr'[OldestUnpinned(last'.f)] = last'.f
               /\ bufrecnum'[OldestUnpinned(last'.f)] = last'.rec]_vars

\* C22 witness: a load has succeeded while every buffer is the current buffer
\* of its owner and the oldest buffer belongs to another file; the load wrote
\* back the file's own current buffer, which it has reused.
C22_Witness ==
  /\ last.op = "ffldrc" /\ last.status = 0 /\ ~fault
  /\ AllLocked
  /\ bufptr[ageindex[0]] # last.f
  /\ Len(last.wlog) > 0
  /\ \A i \in 1 .. Len(last.wlog) : last.wlog[i].f = last.f

\* the bytes of buffer ii after the call
SlotBytesAfter(ii) == [i \in 1 .. IOBUFLEN |-> iobuffer'[ii * IOBUFLEN + i - 1]]

\* record b of the disk file of f after the call, if the disk holds it whole
DiskBlockAfter(f, b) ==
  [i \in 1 .. IOBUFLEN |->
     IF b * IOBUFLEN + i <= Len(disk'[f]) THEN disk'[f][b * IOBUFLEN + i]
     ELSE -1]

\* buffer ii holds record b of file f after the call, is the only buffer that
\* does, is the current buffer of f and the youngest of the age index
LoadedAfter(f, b, ii) ==
  /\ ii \in Bufs
  /\ bufptr'[ii] = f /\ bufrecnum'[ii] = b
  /\ \A jj \in Bufs : (bufptr'[jj] = f /\ bufrecnum'[jj] = b) => jj = ii
  /\ ageindex'[NIOBUF - 1] = ii

\* the content of buffer ii after a load of record b that was not loaded:
\* the record of the disk if it lies inside the file, fill bytes otherwise
FreshAfter(f, b, ii) ==
  IF b * IOBUFLEN < Fptr'[f].filesize
  THEN SlotBytesAfter(ii) = DiskBlockAfter(f, b)
  ELSE /\ SlotBytesAfter(ii) = [i \in 1 .. IOBUFLEN |-> FillByte(Fptr[f].hdutype)]
       /\ dirty'[ii]
       /\ Fptr'[f].logfilesize >= (b + 1) * IOBUFLEN

\* C23: after a load of record b of file f that succeeded, exactly one buffer
\* holds (f, b), it is the current buffer of f and the youngest buffer; if the
\* record was not loaded before, the buffer holds the record of the disk when
\* b * IOBUFLEN < filesize, and fill bytes otherwise, and then it is modified
\* and logfilesize is at least (b + 1) * IOBUFLEN.
C23_LoaderPostcondition ==
  [][(last'.op = "ffldrc" /\ last'.status = 0 /\ ~fault')
       => /\ LoadedAfter(last'.f, last'.rec, Fptr'[last'.f].curbuf)
          /\ NotResident(last'.f, last'.rec)
               => FreshAfter(last'.f, last'.rec, Fptr'[last'.f].curbuf)]_vars

\* C23 witness: a load has read a record from the disk into the buffer of a
\* record that was written back for it.
C23_Witness ==
  /\ last.op = "ffldrc" /\ last.status = 0 /\ ~fault
  /\ Len(last.wlog) > 0
  /\ last.rec * IOBUFLEN < Fptr[last.f].filesize
  /\ ~dirty[Fptr[last.f].curbuf]
  /\ Len(disk[last.f]) >= (last.rec + 1) * IOBUFLEN
  /\ \E i \in 1 .. IOBUFLEN : disk[last.f][last.rec * IOBUFLEN + i] # 0

\* buffer ii is a buffer of the age index that holds record b of file f
Resident(f, b, ii) ==
  /\ bufptr[ii] = f /\ bufrecnum[ii] = b
  /\ \E k \in Bufs : ageindex[k] = ii

\* the age index after buffer ii has become the youngest: the buffers that
\* were younger than ii have moved one place towards the oldest end
Rejuvenated(ii) ==
  LET at == CHOOSE k \in Bufs : ageindex[k] = ii
                                  /\ \A j \in 0 .. (k - 1) : ageindex[j] # ii
  IN [k \in Bufs |-> IF k = NIOBUF - 1 THEN ii
                     ELSE IF k >= at THEN ageindex[k + 1] ELSE ageindex[k]]

\* C24: a load of a record that is loaded succeeds for either err_mode, also
\* beyond the logical end of the file; it does no seek, read or write, leaves
\* the owner, record, bytes and modified flag of every buffer, the disk and
\* every file's sizes and positions as they were, and only makes the buffer
\* the current buffer of the file and the youngest of the age index.
C24_HitPathIoFree ==
  [][(last'.op = "ffldrc" /\ ~fault /\ ~NotResident(last'.f, last'.rec))
       => /\ last'.status = 0
          /\ UNCHANGED <<iobuffer, bufptr, bufrecnum, dirty, disk, drvpos>>
          /\ last'.wlog = << >>
          /\ \A g \in Files \ {last'.f} : Fptr'[g] = Fptr[g]
          /\ \E ii \in Bufs :
               /\ Resident(last'.f, last'.rec, ii)
               /\ Fptr' = [Fptr EXCEPT ![last'.f].curbuf = ii]
               /\ ageindex' = Rejuvenated(ii)]_vars

\* C24 witness: a load with REPORT_EOF has made a modified record beyond the
\* end of the disk file the current record again, and another buffer of the
\* file is still modified.
C24_Witness ==
  /\ last.op = "ffldrc" /\ last.status = 0 /\ ~fault
  /\ last.mode = REPORT_EOF
  /\ last.wlog = << >>
  /\ last.rec * IOBUFLEN >= Fptr[last.f].filesize
  /\ dirty[Fptr[last.f].curbuf]
  /\ \E ii \in Bufs : ii # Fptr[last.f].curbuf /\ bufptr[ii] = last.f /\ dirty[ii]
  /\ bufrecnum[Fptr[last.f].curbuf] = last.rec

\* the call is a large write by a file that has a current buffer
LargeWrite ==
  /\ last'.op = "ffpbyt" /\ last'.n >= MINDIRECT /\ last'.status = 0
  /\ ~fault' /\ Fptr[last'.f].curbuf \in Bufs

\* after a large write of n bytes at fp by file f whose current buffer held
\* record recstart, the current buffer of f is the only buffer of f with a
\* record in recstart .. recend; it holds recend and is modified
LargeWriteDone(f, fp, n, recstart, recend) ==
  /\ Fptr'[f].curbuf \in Bufs
  /\ bufptr'[Fptr'[f].curbuf] = f
  /\ bufrecnum'[Fptr'[f].curbuf] = recend
  /\ dirty'[Fptr'[f].curbuf]
  /\ \A ii \in Bufs :
       (bufptr'[ii] = f /\ bufrecnum'[ii] >= recstart /\ bufrecnum'[ii] <= recend)
          => ii = Fptr'[f].curbuf
  /\ Fptr'[f].bytepos = fp + n
  /\ Fptr'[f].logfilesize >= (recend + 1) * IOBUFLEN

C26_LargeReadSeesWrites ==
  (/\ \/ last.op = "ffgi1b" /\ last.mode = 1
      \/ last.op = "ffgbyt" /\ last.afterseek
   /\ last.n >= MINDIRECT /\ last.status = 0 /\ ~failed /\ ~fault)
     => SeesWritten(last.f, last.pos, last.n, last.out)

\* the call is a read that succeeded
ReadDone == last'.op = "ffgbyt" /\ last'.status = 0 /\ ~fault /\ ~fault'

\* the call has cleared the modified flag of buffers of file f and changed
\* no other flag
OnlyFlushed(f) ==
  \A ii \in Bufs : dirty'[ii] # dirty[ii] => (dirty[ii] /\ bufptr[ii] = f)

\* C27: a large read that succeeded leaves the owner, the record and the
\* bytes of every buffer, the age index, the current buffer and the file
\* position as they were: it changes only io_pos, the modified flags of the
\* buffers it has written back and filesize. A small read moves the file
\* position over the bytes read.
C27_LargeReadFrame ==
  [][ReadDone
       => IF last'.n >= MINDIRECT
          THEN /\ UNCHANGED <<iobuffer, bufptr, bufrecnum, ageindex>>
               /\ OnlyFlushed(last'.f)
               /\ Fptr' = [Fptr EXCEPT ![last'.f].io_pos = Fptr'[last'.f].io_pos,
                                      ![last'.f].filesize = Fptr'[last'.f].filesize]
          ELSE Fptr'[last'.f].bytepos = Fptr[last'.f].bytepos + last'.n]_vars

\* C27 witness: a large read has written back a buffer of the file and has
\* read the record from the disk; the file position is where it was.
C27_Witness ==
  /\ last.op = "ffgbyt" /\ last.n >= MINDIRECT /\ last.status = 0 /\ ~fault
  /\ Len(last.wlog) > 0
  /\ Len(last.out) = last.n
  /\ Fptr[last.f].bytepos = last.pos
  /\ Fptr[last.f].io_pos = last.pos + last.n

\* the sequence seek_to(f, p + i * (gsize + gap), ignore_eof);
\* write_bytes(f, gsize, src[i]) for groups i, i + 1, ... with one status.
\* For a file without a current buffer the word at bufrecnum[-1] is taken
\* to differ from the record, so that the first seek loads it; with the
\* other words the write that follows the seek faults.
RECURSIVE PerGroup(_, _, _, _, _, _, _, _)
PerGroup(s, f, p, gsize, ngroups, gap, buffer, i) ==
  IF i >= ngroups THEN s
  ELSE PerGroup(ffpbyt(ffmbyt(s, f, p + i * (gsize + gap), IGNORE_EOF, -1),
                       f, Seg(buffer, i * gsize, gsize), -1),
                f, p, gsize, ngroups, gap, buffer, i + 1)

\* the byte of file f at position q as a reader of the core finds it: the
\* byte of the buffer that holds the record, else the byte of the disk, and
\* -1 beyond the end of the disk file
LogicalByte(s, f, q) ==
  IF \E ii \in Bufs : s.bufptr[ii] = f /\ s.bufrecnum[ii] = q \div IOBUFLEN
  THEN s.iobuffer[(CHOOSE ii \in Bufs :
                     s.bufptr[ii] = f /\ s.bufrecnum[ii] = q \div IOBUFLEN)
                  * IOBUFLEN + (q % IOBUFLEN)]
  ELSE IF q < Len(s.disk[f]) THEN s.disk[f][q + 1] ELSE -1

\* the records of file f that are in a modified buffer
DirtyRecords(s, f) ==
  {r \in 0 .. MaxRec : \E ii \in Bufs : s.bufptr[ii] = f /\ s.dirty[ii]
                                         /\ s.bufrecnum[ii] = r}

\* the state after the call
After ==
  [iobuffer |-> iobuffer', bufptr |-> bufptr', bufrecnum |-> bufrecnum',
   dirty |-> dirty', Fptr |-> Fptr', disk |-> disk']

\* states s and t give file f the same content, the same modified records
\* and the same file position
SameFile(s, t, f) ==
  /\ \A q \in 0 .. (MaxPos - 1) : LogicalByte(s, f, q) = LogicalByte(t, f, q)
  /\ DirtyRecords(s, f) = DirtyRecords(t, f)
  /\ s.Fptr[f].bytepos = t.Fptr[f].bytepos

\* C28: a strided write of ngroups groups of gsize bytes, gap bytes apart,
\* at position p leaves the file with the content, the modified records and
\* the file position that the writes of the groups one by one, each after a
\* seek to its position, leave.
C28_StridedRefinesPerGroup ==
  [][(last'.op = "stridedwrite" /\ last'.status = 0 /\ ~fault')
       => SameFile(After,
                   PerGroup(State(0), last'.f, last'.pos, last'.n, last'.rec,
                            last'.mode, Pattern(65, last'.n * last'.rec), 0),
                   last'.f)]_vars

(* ---------------- the cursor of the strided engines -------------------- *)
\* a step of one of the two strided engines
Strided == last.op \in {"stridedtrip", "stridedwrite"} /\ ~fault

\* the copy e lies in the bytes [0, IOBUFLEN) of its buffer
CopyInSlot(e) == e.bufpos >= 0 /\ e.n >= 0 /\ e.bufpos + e.n <= IOBUFLEN

\* the file position of byte done of the caller's buffer in a transfer of
\* groups of gsize bytes, offset bytes apart, that starts at pos
GroupByte(pos, gsize, offset, done) ==
  pos + (done \div gsize) * (gsize + offset) + (done % gsize)

\* the copy e is the first of a group that follows a gap
AfterGap(e, gsize) == e.done > 0 /\ e.done % gsize = 0

\* the cursor of the copy e points at the file position of its first byte
CursorAt(e, pos, gsize, offset) ==
  /\ 0 <= e.bufpos
  /\ e.bufpos < IOBUFLEN
  /\ e.record * IOBUFLEN + e.bufpos = GroupByte(pos, gsize, offset, e.done)

\* C29, second half: after each gap skip of ffpbytoff and ffgbytoff the
\* cursor lies inside the buffer, 0 <= bufpos < IOBUFLEN, and record *
\* IOBUFLEN + bufpos is the file position of the first byte of the next group
C29_CursorAfterGap ==
  Strided =>
    \A k \in DOMAIN last.clog :
      AfterGap(last.clog[k], last.n) =>
        CursorAt(last.clog[k], last.pos, last.n, last.mode)

\* C29: in ffpbytoff and ffgbytoff every copy touches only the bytes
\* [0, IOBUFLEN) of one buffer, and after each gap skip the cursor lies
\* inside the buffer at the file position of the next group
C29_StridedCursorInBounds ==
  Strided =>
    \A k \in DOMAIN last.clog :
      /\ CopyInSlot(last.clog[k])
      /\ AfterGap(last.clog[k], last.n) =>
           CursorAt(last.clog[k], last.pos, last.n, last.mode)

\* the copies of groups that cross at most one record boundary stay in
\* their buffer
C29_ShortGroupsInSlot ==
  (Strided /\ last.n <= IOBUFLEN + 1) =>
    \A k \in DOMAIN last.clog : CopyInSlot(last.clog[k])

\* a transfer of several groups with a gap has moved its cursor
C29_Witness ==
  /\ Strided
  /\ last.status = 0
  /\ last.mode > 0
  /\ \E k \in DOMAIN last.clog : AfterGap(last.clog[k], last.n)

(* ------------------- the extension loop of ffbfwt ---------------------- *)
\* buffer ii holds a record that starts beyond the end of its file
PastEof(ii) ==
  bufptr[ii] # NULL /\ bufrecnum[ii] * IOBUFLEN > Fptr[bufptr[ii]].filesize

\* the buffers of file f
OwnedBy(f) == {jj \in Bufs : bufptr[jj] = f}

\* the driver writes of the state t that carry a buffer of file f, one for
\* each round of the while loop; the other writes are records of zeros
BufferWrites(t, f) ==
  {i \in 1 .. Len(t.wlog) :
     \E jj \in OwnedBy(f) : t.wlog[i].pos = bufrecnum[jj] * IOBUFLEN}

\* the state t that the writeback of buffer ii of file f has left: no more
\* rounds than f has buffers, the file ends with the record of ii, the driver
\* is at the end of the file and the buffers of f from the old end of the
\* file to the record of ii are unmodified
ExtensionDone(t, f, ii) ==
  /\ Cardinality(BufferWrites(t, f)) <= Cardinality(OwnedBy(f))
  /\ t.Fptr[f].filesize = (bufrecnum[ii] + 1) * IOBUFLEN
  /\ t.Fptr[f].io_pos = t.Fptr[f].filesize
  /\ \A jj \in OwnedBy(f) :
        (/\ bufrecnum[jj] >= Fptr[f].filesize \div IOBUFLEN
         /\ bufrecnum[jj] <= bufrecnum[ii]) => ~t.dirty[jj]

\* C30: ffbfwt for a buffer whose record starts beyond the end of its file
\* ends after at most as many rounds of its while loop as the file has
\* buffers, and then filesize is the end of that record, io_pos equals
\* filesize, and every buffer of the file with a record from the old end of
\* the file to that record is unmodified
C30_ExtensionLoopTerminates ==
  ~fault =>
    \A ii \in Bufs :
      PastEof(ii) => ExtensionDone(ffbfwt(State(0), ii), bufptr[ii], ii)

\* C30 witness: a load for one file has written back a buffer of another
\* file in two rounds, after a record of zeros, and left that file at its
\* new end with no modified buffer
C30_Witness ==
  /\ last.op = "ffldrc" /\ last.status = 0 /\ ~fault
  /\ Len(last.wlog) = 3
  /\ \E g \in Files \ {last.f} :
        /\ \A i \in 1 .. 3 : last.wlog[i].f = g /\ last.wlog[i].pos = (i - 1) * IOBUFLEN
        /\ last.wlog[1].eof = 0
        /\ Fptr[g].filesize = 3 * IOBUFLEN
        /\ Fptr[g].io_pos = Fptr[g].filesize
        /\ \A jj \in OwnedBy(g) : ~dirty[jj]

(* --------------------- the effect of ffbfeof --------------------------- *)
\* buffer ii is the same before and after the call: owner, record, modified
\* flag and bytes
SlotUnchanged(ii) ==
  /\ bufptr'[ii] = bufptr[ii]
  /\ bufrecnum'[ii] = bufrecnum[ii]
  /\ dirty'[ii] = dirty[ii]
  /\ \A k \in 0 .. (IOBUFLEN - 1) :
        iobuffer'[ii * IOBUFLEN + k] = iobuffer[ii * IOBUFLEN + k]

\* C31: after ffbfeof for file f no buffer belongs to f with a record that
\* starts at or beyond filesize, while every buffer of f below filesize, every
\* buffer of every other file, the age index and the sizes of all files are
\* unchanged
C31_DropBeyondEofEffect ==
  [][(last'.op = "ffbfeof" /\ ~fault')
       => /\ \A ii \in Bufs :
                ~(/\ bufptr'[ii] = last'.f
                  /\ bufrecnum'[ii] * IOBUFLEN >= Fptr'[last'.f].filesize)
          /\ \A ii \in Bufs :
                (\/ bufptr[ii] # last'.f
                 \/ bufrecnum[ii] * IOBUFLEN < Fptr[last'.f].filesize)
                  => SlotUnchanged(ii)
          /\ ageindex' = ageindex
          /\ \A g \in Files :
                /\ Fptr'[g].filesize = Fptr[g].filesize
                /\ Fptr'[g].logfilesize = Fptr[g].logfilesize
                /\ disk'[g] = disk[g]]_vars

\* C31 witness: ffbfeof has given up a modified record beyond the end of the
\* file and kept a buffer of the file below it
C31_Witness ==
  /\ last.op = "ffbfeof" /\ last.status = 0 /\ ~fault
  /\ \E ii \in Bufs :
        /\ bufptr[ii] = NULL /\ dirty[ii]
        /\ bufrecnum[ii] * IOBUFLEN >= Fptr[last.f].filesize
  /\ \E jj \in Bufs :
        /\ bufptr[jj] = last.f
        /\ bufrecnum[jj] * IOBUFLEN < Fptr[last.f].filesize

(* ----------------------- modified implies owned ------------------------ *)
\* C32: in every reachable state every buffer that is marked modified has an
\* owning file, so ffldrc never calls ffbfwt for a buffer without a file
C32_DirtyImpliesOwned ==
  ~fault => \A ii \in Bufs : dirty[ii] => bufptr[ii] # NULL

(* --------------------------- cache coherence --------------------------- *)
\* the bytes of buffer ii
SlotBytes(ii) == [i \in 1 .. IOBUFLEN |-> iobuffer[ii * IOBUFLEN + i - 1]]

\* buffer ii holds the bytes that the disk file of its owner has for its
\* record
OnDisk(ii) ==
  /\ (bufrecnum[ii] + 1) * IOBUFLEN <= Len(disk[bufptr[ii]])
  /\ \A i \in 1 .. IOBUFLEN :
        disk[bufptr[ii]][bufrecnum[ii] * IOBUFLEN + i] = SlotBytes(ii)[i]

\* buffer ii has an owner, is not modified and its record starts below the
\* size of the file
CleanInFile(ii) ==
  /\ bufptr[ii] # NULL
  /\ ~dirty[ii]
  /\ bufrecnum[ii] * IOBUFLEN < Fptr[bufptr[ii]].filesize

\* C33: every buffer that has an owner, is not modified and whose record lies
\* below the size of the file holds exactly the bytes the disk has for that
\* record
C33_CacheCoherence ==
  (~fault /\ ~failed) => \A ii \in Bufs : CleanInFile(ii) => OnDisk(ii)

(* ---------------------- isolation between files ------------------------ *)
\* the latest call was made for file 1 and has returned in both runs
InBothRuns == last.f = 1 /\ ~fault /\ ~solo.fault

\* C34: the calls for file 2 change neither the status and the bytes that a
\* call for file 1 returns nor the bytes that a flush of file 1 leaves in its
\* disk file: the run with the calls for file 2 and the run without them
\* give file 1 the same results
C34_Isolation ==
  InBothRuns =>
    /\ last.status = solo.status
    /\ last.out = solo.out
    /\ last.op = "ffflsh" => disk[1] = solo.disk[1]

\* the part of C34 about the disk file
C34_SameDisk ==
  (InBothRuns /\ last.op = "ffflsh" /\ last.status = 0 /\ solo.status = 0)
    => disk[1] = solo.disk[1]

\* the part of C34 about the bytes read, when no call has failed in the run
\* observed
C34_SameBytes ==
  (InBothRuns /\ ~failed /\ solo.status = 0) => last.out = solo.out

(* ----------------------------- seek elision ---------------------------- *)
\* C35: after every call, when no call has failed, io_pos of every file is
\* the position at which the driver stands in that file, so a read or write
\* that follows a skipped seek happens at the offset it was meant for
C35_IoPosIsDriverPosition ==
  (~fault /\ ~failed) => \A f \in Files : Fptr[f].io_pos = drvpos[f]

\* C35 witness: a flush has overwritten a record and written the next record
\* right after it without a seek in between, and io_pos is where the driver
\* stands
C35_Witness ==
  /\ last.op = "ffflsh" /\ last.status = 0 /\ ~fault /\ ~failed
  /\ \E i \in 1 .. (Len(last.wlog) - 1) :
        /\ last.wlog[i].f = last.f /\ last.wlog[i + 1].f = last.f
        /\ last.wlog[i].ok /\ last.wlog[i + 1].ok
        /\ last.wlog[i].pos < last.wlog[i].eof
        /\ last.wlog[i + 1].pos = last.wlog[i].pos + IOBUFLEN
  /\ Fptr[last.f].io_pos = drvpos[last.f]
  /\ drvpos[last.f] > 0


====
